---- MODULE Spec2Model ----
(***************************************************************************)
(* Model of go-enrichable-client's resilience middleware:                  *)
(*   - CircuitBreakerService  (middleware/circuitbreaker.go)    SpecCB     *)
(*   - RetryWithConfig        (middleware/retryable.go)         SpecRetry  *)
(*   - OAuthService.GetToken  (middleware/oauth.go)             SpecOAuth  *)
(*   - DefaultRetryPolicy and DefaultBackoff on their own       SpecCalc   *)
(*   - the request body through the retry loop                  SpecBody   *)
(*   - the middleware chain   (client/enrichableclient.go)      SpecChain  *)
(*   - the breaker with its mutex                               SpecMutex  *)
(*   - the retry loop with a body producer that fails           SpecProducer *)
(*   - Client.Do, the retrying client (retryablehttp.go)        SpecDo     *)
(*   - breaker, retry and OAuth stacked in one client           SpecStack  *)
(* Each component has its own specification; the variables of the other    *)
(* components stay parked at a constant value.                             *)
(***************************************************************************)
EXTENDS Integers, Sequences, FiniteSets, TLC

(***************************************************************************)
(* Bounds of the model.                                                    *)
(***************************************************************************)
MaxTime == 3          \* the clock runs from 1 to MaxTime
MaxCount == 7         \* cap on counts.Requests of one generation
MaxRetryMax == 3      \* RetryConfig.RetryMax ranges over 0..MaxRetryMax
MaxRefresh == 3       \* cap on the refresh calls sent to the auth server
MaxAttempt == 10      \* DefaultBackoff is called with attemptNum 0..MaxAttempt
MaxBodyLen == 2       \* a request body is a byte slice of 0..MaxBodyLen bytes
MaxMiddleware == 3    \* Use registers at most MaxMiddleware middleware
MaxPath == 30         \* the longest run of steps followed from one state
MaxLocked == 3        \* cap on counts.Requests where the mutex is modelled

\* the goroutines calling through the breaker
Callers == {1, 2}

(***************************************************************************)
(* Circuit breaker: variables.                                             *)
(*   cb       : the mutable fields of CircuitBreakerService (state,        *)
(*              generation, counts, expiry) plus the last OnStateChange    *)
(*              notification and the number of notifications made          *)
(*   settings : maxRequests, interval, timeout (fixed after construction)  *)
(*   now      : time.Now(); expiry 0 is the zero time.Time, now >= 1       *)
(*   call     : per goroutine, the position inside Execute and its locals  *)
(***************************************************************************)
VARIABLES cb, settings, now, call

cbVars == <<cb, settings, now, call>>

(***************************************************************************)
(* Retry middleware: variables.                                            *)
(*   config : the RetryConfig and the request handed to the middleware     *)
(*   rt     : the locals of one run of the responder RetryWithConfig       *)
(*            returns (i, attempt, resp, doErr, checkErr, shouldRetry,     *)
(*            wait), its position, what it returned, and the record of     *)
(*            what it did (calls of next, backoff waits, policy verdicts)  *)
(*   ctxErr : req.Context().Err(), "nil" until the context is cancelled    *)
(***************************************************************************)
VARIABLES config, rt, ctxErr

retryVars == <<config, rt, ctxErr>>

(***************************************************************************)
(* OAuth token cache: variables.                                           *)
(*   svc        : OAuthService: the cached token and the state of its      *)
(*                sync.RWMutex (goroutines holding it for reading, the     *)
(*                goroutine holding it for writing, 0 if none)             *)
(*   gt         : per goroutine, the position inside GetToken, its local   *)
(*                token and what its last GetToken returned                *)
(*   authServer : the refresh calls received: how many, and the answers    *)
(* The clock now is shared with the circuit breaker.                       *)
(***************************************************************************)
VARIABLES svc, gt, authServer

oauthVars == <<svc, gt, authServer>>

(***************************************************************************)
(* Policy functions: variables.                                            *)
(*   calc : one call of DefaultRetryPolicy or DefaultBackoff: the function *)
(*          called, its arguments and, once it has returned, its result    *)
(***************************************************************************)
VARIABLES calc

(***************************************************************************)
(* Request body: variables.                                                *)
(*   req : one request with a byte-slice body on its way through the       *)
(*         retry loop: the slice it was built from, its Body stream, the   *)
(*         body producer FromRequest gave it, and the stream each attempt  *)
(*         was sent with                                                   *)
(***************************************************************************)
VARIABLES req

(***************************************************************************)
(* Middleware chain: variables.                                            *)
(*   chain : the enrichable Client: the middleware registered with Use,    *)
(*           and one RoundTrip: the middleware handed to applyMiddleware,  *)
(*           the composed responder, the layer that is running, the        *)
(*           request each layer was called with, the result                *)
(***************************************************************************)
VARIABLES chain

(***************************************************************************)
(* Breaker mutex: variables.                                               *)
(*   mu : the breaker's sync.Mutex (who holds it) and a goroutine that     *)
(*        calls State() and Counts(): its position and what the calls      *)
(*        returned                                                         *)
(***************************************************************************)
VARIABLES mu

(***************************************************************************)
(* Body producer: variables.                                               *)
(*   producer : the attempt at whose start req.body() returns an error     *)
(*              (0: it never does, as the producers FromRequest builds)    *)
(***************************************************************************)
VARIABLES producer

(***************************************************************************)
(* Retrying client (retryablehttp.go): variables.                          *)
(*   old : one call of Client.Do: the request (with or without a body      *)
(*         producer), the client's RetryMax and CheckRetry, the context,   *)
(*         the locals of Do, the HTTP calls made and what Do returned      *)
(***************************************************************************)
VARIABLES old

(***************************************************************************)
(* Stacked middleware: variables.                                          *)
(*   stack : one client with the breaker, the retry middleware and the     *)
(*           OAuth middleware in front of the transport, and one request   *)
(*           on its way through them: which of breaker and retry is        *)
(*           outermost, the layer that is running, the locals of the       *)
(*           layers, the request's authorization header, the cached        *)
(*           token, and how often each layer has run for this request.     *)
(* The breaker is cb, with settings and the clock now.                     *)
(***************************************************************************)
VARIABLES stack

restVars == <<producer, old, stack>>

extVars == <<mu, restVars>>

vars == <<cbVars, retryVars, oauthVars, calc, req, chain, extVars>>

CircuitBreakerStateClosed == "closed"
CircuitBreakerStateHalfOpen == "half-open"
CircuitBreakerStateOpen == "open"

ErrTooManyRequests == "too many requests"
ErrOpenState == "circuit breaker is open"
ErrNil == "nil"
ErrFail == "fail"

ZeroTime == 0

\* responses the wrapped call may produce: a nil *http.Response (as in the
\* tests, written -1) or a response with status 200 or 500
RespNil == -1
Responses == {200, 500}

\* what next(request) may return: a response without error, or an error
\* with a nil response
Outcomes ==
    [resp : Responses, err : {ErrNil}] \cup [resp : {RespNil}, err : {ErrFail}]

ZeroCounts ==
    [Requests |-> 0, TotalSuccesses |-> 0, TotalFailures |-> 0,
     ConsecutiveSuccesses |-> 0, ConsecutiveFailures |-> 0]

countsOnRequest(c) == [c EXCEPT !.Requests = @ + 1]

\* mutant: a success restarts the run of successes instead of extending it
countsOnSuccess_RestartsStreak(c) ==
    [c EXCEPT !.TotalSuccesses = @ + 1,
              !.ConsecutiveSuccesses = 1,
              !.ConsecutiveFailures = 0]

countsOnSuccess(c) ==
    [c EXCEPT !.TotalSuccesses = @ + 1,
              !.ConsecutiveSuccesses = @ + 1,
              !.ConsecutiveFailures = 0]

\* mutant: a failure leaves the run of successes standing
countsOnFailure_KeepsSuccessStreak(c) ==
    [c EXCEPT !.TotalFailures = @ + 1,
              !.ConsecutiveFailures = @ + 1]

countsOnFailure(c) ==
    [c EXCEPT !.TotalFailures = @ + 1,
              !.ConsecutiveFailures = @ + 1,
              !.ConsecutiveSuccesses = 0]

\* mutant: trips one failure early
defaultReadyToTrip_AtFive(c) == c.ConsecutiveFailures >= 5

defaultReadyToTrip(c) == c.ConsecutiveFailures > 5

AssertStatusCode(resp) ==
    IF resp = RespNil THEN ErrNil
    ELSE IF (resp >= 200 /\ resp <= 299) \/ resp = 404 \/ resp = 304 THEN ErrNil
    ELSE "unexpected HTTP status"

defaultIsSuccessful(resp, err) == err = ErrNil /\ AssertStatusCode(resp) = ErrNil

\* mutant: the new generation starts with the old counts
toNewGeneration_KeepsCounts(b, st, t) ==
    [b EXCEPT !.generation = @ + 1,
              !.expiry = CASE b.state = CircuitBreakerStateClosed ->
                                  IF st.interval = 0 THEN ZeroTime ELSE t + st.interval
                           [] b.state = CircuitBreakerStateOpen -> t + st.timeout
                           [] OTHER -> ZeroTime]

\* mutant: a Closed generation gets an expiry also when interval = 0
toNewGeneration_IntervalAlways(b, st, t) ==
    [b EXCEPT !.generation = @ + 1,
              !.counts = ZeroCounts,
              !.expiry = CASE b.state = CircuitBreakerStateClosed -> t + st.interval
                           [] b.state = CircuitBreakerStateOpen -> t + st.timeout
                           [] OTHER -> ZeroTime]

\* mutant: a Half-Open generation gets the open timeout as its expiry
toNewGeneration_HalfOpenExpires(b, st, t) ==
    [b EXCEPT !.generation = @ + 1,
              !.counts = ZeroCounts,
              !.expiry = CASE b.state = CircuitBreakerStateClosed ->
                                  IF st.interval = 0 THEN ZeroTime ELSE t + st.interval
                           [] OTHER -> t + st.timeout]

\* toNewGeneration: bump the generation, clear the counts, set the expiry
toNewGeneration(b, st, t) ==
    [b EXCEPT !.generation = @ + 1,
              !.counts = ZeroCounts,
              !.expiry = CASE b.state = CircuitBreakerStateClosed ->
                                  IF st.interval = 0 THEN ZeroTime ELSE t + st.interval
                           [] b.state = CircuitBreakerStateOpen -> t + st.timeout
                           [] OTHER -> ZeroTime]

\* mutant: OnStateChange is handed the new state as the previous one
setState_NotifiesNewState(b, st, s, t) ==
    IF b.state = s THEN b
    ELSE LET moved == toNewGeneration([b EXCEPT !.state = s], st, t)
         IN [moved EXCEPT !.stateChange =
                 [from |-> s, to |-> s, n |-> b.stateChange.n + 1]]

\* setState: no-op when the state is unchanged; otherwise new state, new
\* generation and one OnStateChange(prev, state) notification
setState(b, st, s, t) ==
    IF b.state = s THEN b
    ELSE LET moved == toNewGeneration([b EXCEPT !.state = s], st, t)
         IN [moved EXCEPT !.stateChange =
                 [from |-> b.state, to |-> s, n |-> b.stateChange.n + 1]]

\* mutant: the open timeout is taken as elapsed at the expiry itself
currentState_AtExpiry(b, st, t) ==
    CASE b.state = CircuitBreakerStateClosed ->
            IF b.expiry # ZeroTime /\ b.expiry < t
            THEN toNewGeneration(b, st, t) ELSE b
      [] b.state = CircuitBreakerStateOpen ->
            IF b.expiry <= t
            THEN setState(b, st, CircuitBreakerStateHalfOpen, t) ELSE b
      [] OTHER -> b

\* mutant: an Open breaker stays Open when its timeout has elapsed
currentState_OpenForever(b, st, t) ==
    CASE b.state = CircuitBreakerStateClosed ->
            IF b.expiry # ZeroTime /\ b.expiry < t
            THEN toNewGeneration(b, st, t) ELSE b
      [] OTHER -> b

\* mutant: a state query closes a Half-Open breaker whose admissions are
\* used up
currentState_HalfOpenTimesOut(b, st, t) ==
    CASE b.state = CircuitBreakerStateClosed ->
            IF b.expiry # ZeroTime /\ b.expiry < t
            THEN toNewGeneration(b, st, t) ELSE b
      [] b.state = CircuitBreakerStateOpen ->
            IF b.expiry < t
            THEN setState(b, st, CircuitBreakerStateHalfOpen, t) ELSE b
      [] OTHER ->
            IF b.counts.Requests >= st.maxRequests
            THEN setState(b, st, CircuitBreakerStateClosed, t) ELSE b

\* currentState: lazy evaluation of the expiry; returns the updated breaker,
\* whose state and generation fields are the function's two results
currentState(b, st, t) ==
    CASE b.state = CircuitBreakerStateClosed ->
            IF b.expiry # ZeroTime /\ b.expiry < t
            THEN toNewGeneration(b, st, t) ELSE b
      [] b.state = CircuitBreakerStateOpen ->
            IF b.expiry < t
            THEN setState(b, st, CircuitBreakerStateHalfOpen, t) ELSE b
      [] OTHER -> b

\* mutant: Half-Open closes one success late
onSuccess_OneLate(b, st, s, t) ==
    CASE s = CircuitBreakerStateClosed ->
            [b EXCEPT !.counts = countsOnSuccess(@)]
      [] s = CircuitBreakerStateHalfOpen ->
            LET b1 == [b EXCEPT !.counts = countsOnSuccess(@)]
            IN IF b1.counts.ConsecutiveSuccesses > st.maxRequests
               THEN setState(b1, st, CircuitBreakerStateClosed, t) ELSE b1
      [] OTHER -> b

onSuccess(b, st, s, t) ==
    CASE s = CircuitBreakerStateClosed ->
            [b EXCEPT !.counts = countsOnSuccess(@)]
      [] s = CircuitBreakerStateHalfOpen ->
            LET b1 == [b EXCEPT !.counts = countsOnSuccess(@)]
            IN IF b1.counts.ConsecutiveSuccesses >= st.maxRequests
               THEN setState(b1, st, CircuitBreakerStateClosed, t) ELSE b1
      [] OTHER -> b

\* mutant: a Half-Open failure is counted like a Closed one
onFailure_HalfOpenCounts(b, st, s, t) ==
    CASE s \in {CircuitBreakerStateClosed, CircuitBreakerStateHalfOpen} ->
            LET b1 == [b EXCEPT !.counts = countsOnFailure(@)]
            IN IF defaultReadyToTrip(b1.counts)
               THEN setState(b1, st, CircuitBreakerStateOpen, t) ELSE b1
      [] OTHER -> b

onFailure(b, st, s, t) ==
    CASE s = CircuitBreakerStateClosed ->
            LET b1 == [b EXCEPT !.counts = countsOnFailure(@)]
            IN IF defaultReadyToTrip(b1.counts)
               THEN setState(b1, st, CircuitBreakerStateOpen, t) ELSE b1
      [] s = CircuitBreakerStateHalfOpen ->
            setState(b, st, CircuitBreakerStateOpen, t)
      [] OTHER -> b

\* mutant: an Open breaker admits calls
beforeRequest_OpenAdmits(b, st, t) ==
    LET b1 == currentState(b, st, t)
    IN IF b1.state = CircuitBreakerStateHalfOpen
          /\ b1.counts.Requests >= st.maxRequests
       THEN [cb |-> b1, generation |-> b1.generation, err |-> ErrTooManyRequests]
       ELSE [cb |-> [b1 EXCEPT !.counts = countsOnRequest(@)],
             generation |-> b1.generation, err |-> ErrNil]

\* mutant: Half-Open admits one call more than maxRequests
beforeRequest_OneMore(b, st, t) ==
    LET b1 == currentState(b, st, t)
    IN IF b1.state = CircuitBreakerStateOpen
       THEN [cb |-> b1, generation |-> b1.generation, err |-> ErrOpenState]
       ELSE IF b1.state = CircuitBreakerStateHalfOpen
               /\ b1.counts.Requests > st.maxRequests
       THEN [cb |-> b1, generation |-> b1.generation, err |-> ErrTooManyRequests]
       ELSE [cb |-> [b1 EXCEPT !.counts = countsOnRequest(@)],
             generation |-> b1.generation, err |-> ErrNil]

\* mutant: a rejected call is counted as a request all the same
beforeRequest_CountsRejected(b, st, t) ==
    LET b1 == [currentState(b, st, t) EXCEPT !.counts = countsOnRequest(@)]
    IN IF b1.state = CircuitBreakerStateOpen
       THEN [cb |-> b1, generation |-> b1.generation, err |-> ErrOpenState]
       ELSE IF b1.state = CircuitBreakerStateHalfOpen
               /\ b1.counts.Requests > st.maxRequests
       THEN [cb |-> b1, generation |-> b1.generation, err |-> ErrTooManyRequests]
       ELSE [cb |-> b1, generation |-> b1.generation, err |-> ErrNil]

\* beforeRequest: [cb |-> breaker after the call, generation, err]
beforeRequest(b, st, t) ==
    LET b1 == currentState(b, st, t)
    IN IF b1.state = CircuitBreakerStateOpen
       THEN [cb |-> b1, generation |-> b1.generation, err |-> ErrOpenState]
       ELSE IF b1.state = CircuitBreakerStateHalfOpen
               /\ b1.counts.Requests >= st.maxRequests
       THEN [cb |-> b1, generation |-> b1.generation, err |-> ErrTooManyRequests]
       ELSE [cb |-> [b1 EXCEPT !.counts = countsOnRequest(@)],
             generation |-> b1.generation, err |-> ErrNil]

\* mutant: the outcome is recorded whatever the generation
afterRequest_NoGenerationCheck(b, st, before, success, t) ==
    LET b1 == currentState(b, st, t)
    IN IF success THEN onSuccess(b1, st, b1.state, t)
       ELSE onFailure(b1, st, b1.state, t)

\* afterRequest: the breaker after recording (or discarding) one outcome
afterRequest(b, st, before, success, t) ==
    LET b1 == currentState(b, st, t)
    IN IF b1.generation # before THEN b1
       ELSE IF success THEN onSuccess(b1, st, b1.state, t)
       ELSE onFailure(b1, st, b1.state, t)

\* NewCircuitBreakerService: Closed, first generation, counts cleared
NewCircuitBreakerService(st, t) ==
    toNewGeneration(
        [state |-> CircuitBreakerStateClosed, generation |-> 0,
         counts |-> ZeroCounts, expiry |-> ZeroTime,
         stateChange |-> [from |-> "none", to |-> "none", n |-> 0]], st, t)

(***************************************************************************)
(* Retry middleware: policies and backoff (middleware/retryable.go).       *)
(* A response is [status, retryAfter]; durations are in seconds.           *)
(***************************************************************************)
\* no Retry-After header on the response
NoHeader == -1

\* a Retry-After header strconv.ParseInt rejects (an HTTP date, a number
\* that does not fit int64)
BadHeader == -2

\* time.Duration is an int64 of nanoseconds; the model keeps the type signed
\* and of fixed width, DurationBits bits, with time.Second two units
DurationBits == 8

MaxDuration == 2 ^ (DurationBits - 1) - 1

MinDuration == -(2 ^ (DurationBits - 1))

Second == 2

\* int64 arithmetic wraps
WrapDuration(x) ==
    ((x + 2 ^ (DurationBits - 1)) % (2 ^ DurationBits)) - 2 ^ (DurationBits - 1)

\* math.Pow(2, n) is +Inf from this n on (1024 for float64); it lies above
\* DurationBits as 1024 lies above 63
PowOverflow == 9

NilResponse == [status |-> RespNil, retryAfter |-> NoHeader]

RetryStatuses == {0, 200, 429, 500, 501, 503}

\* what next(request) may return to the retry loop
RetryOutcomes ==
    [resp : [status : RetryStatuses, retryAfter : {NoHeader, 3}], err : {ErrNil}]
        \cup {[resp |-> NilResponse, err |-> ErrFail]}

ErrCanceled == "context canceled"
ErrDeadline == "context deadline exceeded"
ErrUnexpectedStatus == "unexpected HTTP status"
ErrPolicy == "policy error"
ErrMarshal == "json: unsupported type"
ErrProducer == "body producer failed"

\* mutant: 501 is retried like the other statuses from 500 up
DefaultRetryPolicy_Retries501(ctx, resp, err) ==
    IF ctx # ErrNil THEN [shouldRetry |-> FALSE, err |-> ctx]
    ELSE IF err # ErrNil THEN [shouldRetry |-> TRUE, err |-> ErrNil]
    ELSE IF resp.status = 429 THEN [shouldRetry |-> TRUE, err |-> ErrNil]
    ELSE IF resp.status >= 500 THEN [shouldRetry |-> TRUE, err |-> ErrNil]
    ELSE IF resp.status = 0
         THEN [shouldRetry |-> TRUE, err |-> ErrUnexpectedStatus]
    ELSE [shouldRetry |-> FALSE, err |-> ErrNil]

DefaultRetryPolicy(ctx, resp, err) ==
    IF ctx # ErrNil THEN [shouldRetry |-> FALSE, err |-> ctx]
    ELSE IF err # ErrNil THEN [shouldRetry |-> TRUE, err |-> ErrNil]
    ELSE IF resp.status = 429 THEN [shouldRetry |-> TRUE, err |-> ErrNil]
    ELSE IF resp.status >= 500 /\ resp.status # 501
         THEN [shouldRetry |-> TRUE, err |-> ErrNil]
    ELSE IF resp.status = 0
         THEN [shouldRetry |-> TRUE, err |-> ErrUnexpectedStatus]
    ELSE [shouldRetry |-> FALSE, err |-> ErrNil]

\* config.CheckRetry: the default policy, or a caller-supplied policy that
\* may answer anything
CheckRetry(policy, ctx, resp, err) ==
    IF policy = "DefaultRetryPolicy" THEN {DefaultRetryPolicy(ctx, resp, err)}
    ELSE [shouldRetry : BOOLEAN, err : {ErrNil, ErrPolicy}]

\* the exponential branch of DefaultBackoff (retryable.go:144-149):
\*   mult := math.Pow(2, attemptNum) * float64(min); sleep := Duration(mult)
\*   if float64(sleep) != mult || sleep > max { sleep = max }
\* When math.Pow overflows, mult is +Inf, or NaN for min = 0, and when mult
\* lies outside int64 the conversion gives some int64: in all these cases
\* float64(sleep) != mult holds and the result is max.
Exponential(min, max, attemptNum) ==
    IF attemptNum >= PowOverflow THEN max
    ELSE LET mult == (2 ^ attemptNum) * min
         IN IF mult < MinDuration \/ mult > MaxDuration THEN max
            ELSE IF mult > max THEN max
            ELSE mult

DefaultBackoff(min, max, attemptNum, resp) ==
    IF /\ resp # NilResponse
       /\ resp.status \in {429, 503}
       /\ resp.retryAfter \notin {NoHeader, BadHeader}
    THEN WrapDuration(Second * resp.retryAfter)
    ELSE Exponential(min, max, attemptNum)

\* LinearJitterBackoff: the random jitter is any value of [min, max)
LinearJitterBackoff(min, max, attemptNum, resp) ==
    IF max <= min THEN {min * (attemptNum + 1)}
    ELSE {j * (attemptNum + 1) : j \in min..(max - 1)}

\* config.Backoff: the possible waits
Backoff(policy, min, max, attemptNum, resp) ==
    IF policy = "DefaultBackoff" THEN {DefaultBackoff(min, max, attemptNum, resp)}
    ELSE LinearJitterBackoff(min, max, attemptNum, resp)

\* The configurations and requests of the model.  body is the request's
\* Body as FromRequest sees it: nil, a reader json.Marshal accepts, or a
\* value json.Marshal rejects.
RetryConfigs ==
    [RetryMax : 0..MaxRetryMax, RetryWaitMin : {0, 1}, RetryWaitMax : {0, 4},
     CheckRetry : {"DefaultRetryPolicy", "custom"},
     Backoff : {"DefaultBackoff", "LinearJitterBackoff"},
     body : {"nil", "reader", "unmarshalable"}]

NoError == [msg |-> ErrNil, attempt |-> 0]

\* the responder before it runs: var resp, shouldRetry, attempt, doErr, checkErr
\* (wait is the backoff duration of the current select, fired whether its
\* time.After channel has delivered)
RtStart ==
    [pc |-> "start", i |-> 0, attempt |-> 0, resp |-> NilResponse,
     doErr |-> ErrNil, checkErr |-> ErrNil, shouldRetry |-> FALSE, wait |-> 0,
     fired |-> FALSE,
     calls |-> 0, waits |-> 0, drained |-> FALSE, decisions |-> <<>>,
     retResp |-> NilResponse, retErr |-> NoError]

\* mutant: the success return loses the response
Compose_DropsResponse(r) ==
    IF r.doErr = ErrNil /\ r.checkErr = ErrNil /\ ~r.shouldRetry
    THEN [r EXCEPT !.pc = "done", !.retResp = NilResponse, !.retErr = NoError]
    ELSE LET err == IF r.checkErr # ErrNil THEN r.checkErr ELSE r.doErr
         IN IF err = ErrNil
            THEN [r EXCEPT !.pc = "done", !.retResp = r.resp, !.retErr = NoError]
            ELSE [r EXCEPT !.pc = "done", !.retResp = NilResponse,
                           !.retErr = [msg |-> err, attempt |-> r.attempt]]

\* mutant: giving up without an error fabricates one
Compose_FabricatesError(r) ==
    IF r.doErr = ErrNil /\ r.checkErr = ErrNil /\ ~r.shouldRetry
    THEN [r EXCEPT !.pc = "done", !.retResp = r.resp, !.retErr = NoError]
    ELSE LET err == IF r.checkErr # ErrNil THEN r.checkErr ELSE r.doErr
         IN [r EXCEPT !.pc = "done", !.retResp = NilResponse,
                      !.retErr = [msg |-> IF err = ErrNil THEN ErrFail ELSE err,
                                  attempt |-> r.attempt]]

\* mutant: the call error takes precedence over the policy error
Compose_CallErrorFirst(r) ==
    IF r.doErr = ErrNil /\ r.checkErr = ErrNil /\ ~r.shouldRetry
    THEN [r EXCEPT !.pc = "done", !.retResp = r.resp, !.retErr = NoError]
    ELSE LET err == IF r.doErr # ErrNil THEN r.doErr ELSE r.checkErr
         IN IF err = ErrNil
            THEN [r EXCEPT !.pc = "done", !.retResp = r.resp, !.retErr = NoError]
            ELSE [r EXCEPT !.pc = "done", !.retResp = NilResponse,
                           !.retErr = [msg |-> err, attempt |-> r.attempt]]

\* the result composition after the loop (retryable.go:264-281)
Compose(r) ==
    IF r.doErr = ErrNil /\ r.checkErr = ErrNil /\ ~r.shouldRetry
    THEN [r EXCEPT !.pc = "done", !.retResp = r.resp, !.retErr = NoError]
    ELSE LET err == IF r.checkErr # ErrNil THEN r.checkErr ELSE r.doErr
         IN IF err = ErrNil
            THEN [r EXCEPT !.pc = "done", !.retResp = r.resp, !.retErr = NoError]
            ELSE [r EXCEPT !.pc = "done", !.retResp = NilResponse,
                           !.retErr = [msg |-> err, attempt |-> r.attempt]]

\* mutant: the body of a response that is retried is left unread and open
drainBody_Skips(r) == r

\* drainBody(resp.Body): read up to the limit and close the body of the
\* response the loop holds
drainBody(r) == [r EXCEPT !.drained = TRUE]

\* mutant: the loop goes round once more before giving up
LoopBreaks_OneMore(shouldRetry, remain) == ~shouldRetry \/ remain < 0

\* mutant: a verdict of "do not retry" does not end the loop
LoopBreaks_OnlyExhausted(shouldRetry, remain) == remain <= 0

\* the two breaks of the loop: the policy says stop, or no retry remains
LoopBreaks(shouldRetry, remain) == ~shouldRetry \/ remain <= 0

\* the retry variables while another component is being checked
RetryParked ==
    /\ config = [RetryMax |-> 0, RetryWaitMin |-> 0, RetryWaitMax |-> 0,
                 CheckRetry |-> "DefaultRetryPolicy",
                 Backoff |-> "DefaultBackoff", body |-> "nil"]
    /\ rt = RtStart
    /\ ctxErr = ErrNil

(***************************************************************************)
(* The policy functions called on their own, with arguments from bounded   *)
(* sets.                                                                   *)
(***************************************************************************)
NoResult == [shouldRetry |-> FALSE, err |-> ErrNil, wait |-> 0]

\* nothing is being computed
CalcIdle ==
    [pc |-> "in", fn |-> "none", ctx |-> ErrNil, resp |-> NilResponse,
     err |-> ErrNil, min |-> 0, max |-> 0, attemptNum |-> 0, out |-> NoResult]

\* ctx.Err(): nil, context.Canceled or context.DeadlineExceeded
ContextErrors == {ErrNil, ErrCanceled, ErrDeadline}

PolicyStatuses == {0, 100, 200, 404, 429, 499, 500, 501, 502, 599, 600, 999}

\* the arguments of DefaultRetryPolicy: a response comes with a nil error,
\* an error with a nil response
PolicyInputs ==
    {[CalcIdle EXCEPT !.fn = "DefaultRetryPolicy", !.ctx = c,
                      !.resp = [status |-> st, retryAfter |-> NoHeader]] :
        c \in ContextErrors, st \in PolicyStatuses}
    \cup {[CalcIdle EXCEPT !.fn = "DefaultRetryPolicy", !.ctx = c,
                           !.err = ErrFail] : c \in ContextErrors}

BackoffStatuses == {200, 429, 500, 503}

\* Retry-After: absent, not an integer, or a number of seconds
RetryAfterValues == {NoHeader, BadHeader, 0, 3, 40, MaxDuration}

\* the arguments of DefaultBackoff: durations from 0 to 30s, the attempt
\* numbers up to MaxAttempt, no response or one with or without Retry-After
BackoffInputs ==
    {[CalcIdle EXCEPT !.fn = "DefaultBackoff", !.min = mn, !.max = mx,
                      !.attemptNum = a, !.resp = r] :
        mn \in {0, Second, 3 * Second},
        mx \in {0, 2 * Second, 30 * Second},
        a \in 0..MaxAttempt,
        r \in {NilResponse}
                \cup [status : BackoffStatuses, retryAfter : RetryAfterValues]}

\* the policy functions while another component is being checked
CalcParked == calc = CalcIdle

\* call DefaultRetryPolicy(ctx, resp, err)
CallDefaultRetryPolicy ==
    /\ calc.pc = "in"
    /\ calc.fn = "DefaultRetryPolicy"
    /\ LET r == DefaultRetryPolicy(calc.ctx, calc.resp, calc.err)
       IN calc' = [calc EXCEPT !.pc = "out", !.out.shouldRetry = r.shouldRetry,
                               !.out.err = r.err]
    /\ UNCHANGED <<cbVars, retryVars, oauthVars, req, chain, extVars>>

\* call DefaultBackoff(min, max, attemptNum, resp)
CallDefaultBackoff ==
    /\ calc.pc = "in"
    /\ calc.fn = "DefaultBackoff"
    /\ calc' = [calc EXCEPT !.pc = "out",
                            !.out.wait = DefaultBackoff(calc.min, calc.max,
                                             calc.attemptNum, calc.resp)]
    /\ UNCHANGED <<cbVars, retryVars, oauthVars, req, chain, extVars>>

NextCalc ==
    \/ CallDefaultRetryPolicy
    \/ CallDefaultBackoff

(***************************************************************************)
(* Request bodies (client/request.go, middleware/request.go).  A byte is   *)
(* its ASCII code; a stream is the slice it reads from and the read        *)
(* position.                                                               *)
(***************************************************************************)
\* the bytes request bodies are made of: "o", "y", "{" and "}"
Bytes == {111, 121, 123, 125}

ByteSlices == UNION {[1..n -> Bytes] : n \in 0..MaxBodyLen}

\* request.Body == nil
NilBody == [kind |-> "nil", s |-> <<>>, i |-> 0]

\* ioutil.NopCloser(bytes.NewReader(buf)): a fresh stream over buf
NopCloserReader(buf) == [kind |-> "nopCloser", s |-> buf, i |-> 0]

\* json.Marshal of a *bytes.Reader, a struct without exported fields: {}
bytesReaderJSON == <<123, 125>>

\* json.Marshal of the value ioutil.NopCloser returns, a struct whose one
\* exported field is the embedded io.Reader: {"Reader":{}}
jsonMarshal(body) ==
    IF body.kind = "nopCloser"
    THEN <<123, 34, 82, 101, 97, 100, 101, 114, 34, 58>>
             \o bytesReaderJSON \o <<125>>
    ELSE bytesReaderJSON

\* no body producer (a nil ReaderFunc)
NoReaderFunc == [set |-> FALSE, buf |-> <<>>]

\* getBodyReaderAndContentLength of package middleware: nil for a nil body,
\* else a producer of fresh readers over json.Marshal(body)
getBodyReaderAndContentLength(body) ==
    IF body.kind = "nil" THEN NoReaderFunc
    ELSE [set |-> TRUE, buf |-> jsonMarshal(body)]

\* client.NewHTTPRequest with a []byte body: the producer reads the slice
\* over and over, RewindBody sets Body to its first reader, and
\* ContentLength is the length of the slice
NewHTTPRequest(rawBody) ==
    [pc |-> "built", rawBody |-> rawBody, Body |-> NopCloserReader(rawBody),
     ContentLength |-> Len(rawBody), body |-> NoReaderFunc,
     attempt |-> 0, sent |-> <<>>]

\* no request is on its way
ReqIdle ==
    [pc |-> "none", rawBody |-> <<>>, Body |-> NilBody, ContentLength |-> 0,
     body |-> NoReaderFunc, attempt |-> 0, sent |-> <<>>]

ReqParked == req = ReqIdle

\* RetryWithConfig, line 212: req, err := FromRequest(request)
BodyFromRequest ==
    /\ req.pc = "built"
    /\ req' = [req EXCEPT !.pc = "loop",
                          !.body = getBodyReaderAndContentLength(req.Body)]
    /\ UNCHANGED <<cbVars, retryVars, oauthVars, calc, chain, extVars>>

\* top of the loop, lines 217-231: attempt++ and, with a body producer,
\* req.Body = the stream it returns; next(request) is then called with it
BodyRewind ==
    /\ req.pc = "loop"
    /\ LET b == IF req.body.set THEN NopCloserReader(req.body.buf)
                ELSE req.Body
       IN req' = [req EXCEPT !.pc = "next", !.attempt = @ + 1, !.Body = b,
                             !.sent = Append(@, b)]
    /\ UNCHANGED <<cbVars, retryVars, oauthVars, calc, chain, extVars>>

\* next(request): the transport reads n more bytes of the body
BodyRead ==
    /\ req.pc = "next"
    /\ \E n \in 1..(Len(req.Body.s) - req.Body.i) :
          req' = [req EXCEPT !.Body.i = @ + n]
    /\ UNCHANGED <<cbVars, retryVars, oauthVars, calc, chain, extVars>>

\* the attempt is to be retried: round the loop again
BodyRetry ==
    /\ req.pc = "next"
    /\ req.attempt <= MaxRetryMax
    /\ req' = [req EXCEPT !.pc = "loop"]
    /\ UNCHANGED <<cbVars, retryVars, oauthVars, calc, chain, extVars>>

\* the loop ends after this attempt
BodyDone ==
    /\ req.pc = "next"
    /\ req' = [req EXCEPT !.pc = "done"]
    /\ UNCHANGED <<cbVars, retryVars, oauthVars, calc, chain, extVars>>

NextBody ==
    \/ BodyFromRequest
    \/ BodyRewind
    \/ BodyRead
    \/ BodyRetry
    \/ BodyDone

(***************************************************************************)
(* Middleware chain (client/enrichableclient.go).  A responder is the      *)
(* sequence of its layers, the outermost first; wrapping a responder puts  *)
(* a layer in front of it.                                                 *)
(***************************************************************************)
Methods == {"GET", "HEAD"}

\* the middleware of the tests: createMiddleware(method, statusCode) answers
\* a request of that method itself and hands any other request to next
MiddlewareFuncs == [method : Methods, statusCode : {409, 502}]

\* the transport, the innermost responder (c.defaultResponder)
defaultResponder == [method |-> "transport", statusCode |-> 200]

ErrNoResponderFound == "no responder found"

NoResponse == [status |-> 0, err |-> ErrNil]

\* the mock transport of the tests: a responder for GET only
MockRoundTrip(request) ==
    IF request.method = "GET"
    THEN [status |-> defaultResponder.statusCode, err |-> ErrNil]
    ELSE [status |-> 0, err |-> ErrNoResponderFound]

\* the loop of applyMiddleware from index i down: h = middleware[i](c, h)
RECURSIVE applyFrom(_, _, _)
applyFrom(h, middleware, i) ==
    IF i < 1 THEN h
    ELSE applyFrom(<<middleware[i]>> \o h, middleware, i - 1)

\* mutant: the loop runs from the first middleware to the last
RECURSIVE applyUpFrom(_, _, _)
applyUpFrom(h, middleware, i) ==
    IF i > Len(middleware) THEN h
    ELSE applyUpFrom(<<middleware[i]>> \o h, middleware, i + 1)

applyMiddleware_FirstInnermost(h, middleware) == applyUpFrom(h, middleware, 1)

\* applyMiddleware: for i := len(middleware) - 1; i >= 0; i--
applyMiddleware(h, middleware) == applyFrom(h, middleware, Len(middleware))

\* NewClient: no middleware, no round trip under way
NewClient ==
    [pc |-> "idle", middleware |-> <<>>, applied |-> <<>>, h |-> <<>>,
     pos |-> 0,
     request |-> [method |-> "GET"], seen |-> <<>>, resp |-> NoResponse]

ChainParked == chain = NewClient

\* Use: append a middleware to c.middleware
Use ==
    /\ chain.pc = "idle"
    /\ Len(chain.middleware) < MaxMiddleware
    /\ \E m \in MiddlewareFuncs :
          chain' = [chain EXCEPT !.middleware = Append(@, m)]
    /\ UNCHANGED <<cbVars, retryVars, oauthVars, calc, req, extVars>>

\* RoundTrip: compose the responder and call it with the request
RoundTrip ==
    /\ chain.pc = "idle"
    /\ \E method \in Methods :
          chain' = [chain EXCEPT
                       !.pc = "running",
                       !.applied = chain.middleware,
                       !.h = applyMiddleware(<<defaultResponder>>,
                                             chain.middleware),
                       !.pos = 1,
                       !.request = [method |-> method],
                       !.seen = <<>>,
                       !.resp = NoResponse]
    /\ UNCHANGED <<cbVars, retryVars, oauthVars, calc, req, extVars>>

\* the layer that is running
Layer == chain.h[chain.pos]

\* a middleware answers the request itself, without calling next
MiddlewareResponds ==
    /\ chain.pc = "running"
    /\ Layer # defaultResponder
    /\ chain.request.method = Layer.method
    /\ chain' = [chain EXCEPT
                    !.pc = "idle",
                    !.seen = Append(@, [layer |-> Layer,
                                        request |-> chain.request]),
                    !.resp = [status |-> Layer.statusCode, err |-> ErrNil]]
    /\ UNCHANGED <<cbVars, retryVars, oauthVars, calc, req, extVars>>

\* a middleware returns next(request): the layer it wraps runs next
MiddlewareCallsNext ==
    /\ chain.pc = "running"
    /\ Layer # defaultResponder
    /\ chain.request.method # Layer.method
    /\ chain' = [chain EXCEPT
                    !.pos = @ + 1,
                    !.seen = Append(@, [layer |-> Layer,
                                        request |-> chain.request])]
    /\ UNCHANGED <<cbVars, retryVars, oauthVars, calc, req, extVars>>

\* the transport answers; every layer above returns its result as it is
TransportRoundTrip ==
    /\ chain.pc = "running"
    /\ Layer = defaultResponder
    /\ chain' = [chain EXCEPT
                    !.pc = "idle",
                    !.seen = Append(@, [layer |-> Layer,
                                        request |-> chain.request]),
                    !.resp = MockRoundTrip(chain.request)]
    /\ UNCHANGED <<cbVars, retryVars, oauthVars, calc, req, extVars>>

NextChain ==
    \/ Use
    \/ RoundTrip
    \/ MiddlewareResponds
    \/ MiddlewareCallsNext
    \/ TransportRoundTrip

(***************************************************************************)
(* OAuth token cache (middleware/oauth.go).  Access tokens are numbers:    *)
(* the n-th refresh call the auth server answers issues token n.           *)
(***************************************************************************)
\* the empty string GetToken starts from and returns on error
EmptyToken == 0

\* s.token == nil
NoToken == [AccessToken |-> EmptyToken, ExpirationTokenTime |-> ZeroTime]

ErrRefresh == "token request failed"

\* expires_in values the auth server answers with
ExpiresInValues == {0, 2}

\* the goroutines calling GetToken
Goroutines == {1, 2}

\* mutant: a credential is still served at the instant it expires
CachedToken_AtExpiry(s, t) ==
    IF s.token # NoToken /\ t <= s.token.ExpirationTokenTime
    THEN s.token.AccessToken ELSE EmptyToken

\* GetToken, lines 84-87: the cached token if there is one and it has not
\* expired, else ""
CachedToken(s, t) ==
    IF s.token # NoToken /\ t < s.token.ExpirationTokenTime
    THEN s.token.AccessToken ELSE EmptyToken

\* getBearerToken on a good answer: the token and its expiry
getBearerToken(n, expiresIn, t) ==
    [AccessToken |-> n, ExpirationTokenTime |-> t + expiresIn]

\* a goroutine outside GetToken; retToken and retErr hold what its last
\* GetToken returned, saw the access token of the credential its last read
\* of the cache found there
GtIdle ==
    [pc |-> "idle", token |-> EmptyToken, retToken |-> EmptyToken,
     retErr |-> ErrNil, returned |-> FALSE, sawEmpty |-> FALSE,
     saw |-> EmptyToken]

\* NewOAuthService: no token, the lock free
NewOAuthService == [token |-> NoToken, readers |-> {}, writer |-> 0]

\* the token cache while another component is being checked
OAuthParked ==
    /\ svc = NewOAuthService
    /\ gt = [g \in Goroutines |-> GtIdle]
    /\ authServer = [calls |-> 0, log |-> <<>>]

\* sync.Mutex: its zero value is unlocked; otherwise the goroutine holding
\* it, one of Callers or the goroutine that calls State() and Counts()
Unlocked == 0
Observer == 3

\* the mutex of a new breaker, and a goroutine that has not yet queried it
MuIdle ==
    [mutex |-> Unlocked,
     obs |-> [pc |-> "idle", state |-> "none", counts |-> ZeroCounts]]

MuParked == mu = MuIdle

\* req.body() never returns an error
ProducerParked == producer = 0

\* Client.Do before it runs: var resp, shouldRetry, attempt, doErr, checkErr
DoStart ==
    [pc |-> "loop", body |-> FALSE, RetryMax |-> 0,
     CheckRetry |-> "DefaultRetryPolicy", ctx |-> ErrNil,
     i |-> 0, attempt |-> 0, resp |-> NilResponse, doErr |-> ErrNil,
     checkErr |-> ErrNil, shouldRetry |-> FALSE, calls |-> 0,
     decisions |-> <<>>, retResp |-> NilResponse, retErr |-> NoError]

OldParked == old = DoStart

\* a client on which no request has been sent yet
StackIdle ==
    [pc |-> "idle", order |-> "breaker-retry", RetryMax |-> 0,
     generation |-> 0, result |-> NilResponse, resultErr |-> NoError,
     i |-> 0, attempt |-> 0, resp |-> NilResponse, doErr |-> ErrNil,
     checkErr |-> ErrNil, shouldRetry |-> FALSE,
     retResp |-> NilResponse, retErr |-> NoError,
     header |-> <<>>, token |-> EmptyToken, sent |-> <<>>,
     befores |-> 0, counted |-> 0, rejects |-> 0, afters |-> 0,
     recorded |-> 0, discarded |-> FALSE, retries |-> 0, transports |-> 0,
     afterReject |-> 0]

StackParked == stack = StackIdle

ExtParked == MuParked /\ ProducerParked /\ OldParked /\ StackParked

\* a goroutine outside Execute; result and nextErr hold what next(request)
\* returned to its last Execute, resp and err what that Execute returned,
\* invoked how often it called next, and discarded whether its afterRequest
\* returned early on a generation mismatch
IdleCall ==
    [pc |-> "idle", generation |-> 0, result |-> RespNil, nextErr |-> ErrNil,
     resp |-> RespNil, err |-> ErrNil, invoked |-> 0, discarded |-> FALSE]

\* mutant: an outcome classified as a failure is returned as an error of the
\* breaker without the response
ExecuteReturn_FailureAsError(result, err) ==
    IF defaultIsSuccessful(result, err) THEN [resp |-> result, err |-> err]
    ELSE [resp |-> RespNil, err |-> ErrFail]

\* Execute, last line: return result, err
ExecuteReturn(result, err) == [resp |-> result, err |-> err]

SettingsSet ==
    [maxRequests : {1, 2}, interval : {0, 1}, timeout : {1, 2}]

CBInit ==
    /\ ExtParked
    /\ settings \in SettingsSet
    /\ now = 1
    /\ cb = NewCircuitBreakerService(settings, now)
    /\ call = [c \in Callers |-> IdleCall]
    /\ ReqParked
    /\ ChainParked
    /\ RetryParked
    /\ OAuthParked
    /\ CalcParked

\* the breaker, the clock and the goroutines' calls as one value, which the
\* steps below take to the value after the step
World == [cb |-> cb, now |-> now, call |-> call]

\* time passes
afterTick(w) == [w EXCEPT !.now = @ + 1]

\* State(): a state query under the mutex
afterState(w) == [w EXCEPT !.cb = currentState(w.cb, settings, w.now)]

\* Execute, first step: beforeRequest under the mutex; on rejection Execute
\* returns (nil, err) without calling next
afterExecuteBefore(w, c) ==
    LET r == beforeRequest(w.cb, settings, w.now)
    IN [w EXCEPT !.cb = r.cb,
                 !.call[c] =
                     IF r.err # ErrNil
                     THEN [IdleCall EXCEPT !.resp = RespNil, !.err = r.err]
                     ELSE [IdleCall EXCEPT !.pc = "admitted",
                                           !.generation = r.generation]]

\* Execute, second step: next(request) runs outside the mutex and returns o
afterExecuteNext(w, c, o) ==
    [w EXCEPT !.call[c].pc = "returned", !.call[c].result = o.resp,
              !.call[c].nextErr = o.err, !.call[c].invoked = @ + 1]

\* Execute, third step: afterRequest under the mutex, then return result, err
afterExecuteAfter(w, c) ==
    [w EXCEPT
        !.cb = afterRequest(w.cb, settings, w.call[c].generation,
                            defaultIsSuccessful(w.call[c].result,
                                                w.call[c].nextErr),
                            w.now),
        !.call[c].pc = "idle",
        !.call[c].generation = 0,
        !.call[c].resp =
            ExecuteReturn(w.call[c].result, w.call[c].nextErr).resp,
        !.call[c].err =
            ExecuteReturn(w.call[c].result, w.call[c].nextErr).err,
        !.call[c].discarded =
            (currentState(w.cb, settings, w.now).generation
                # w.call[c].generation)]

Tick ==
    /\ now < MaxTime
    /\ now' = afterTick(World).now
    /\ UNCHANGED <<cb, settings, call, retryVars, oauthVars, calc, req, chain, extVars>>

State ==
    /\ cb' = afterState(World).cb
    /\ cb' # cb
    /\ UNCHANGED <<settings, now, call, retryVars, oauthVars, calc, req, chain, extVars>>

ExecuteBefore(c) ==
    /\ call[c].pc = "idle"
    /\ LET w == afterExecuteBefore(World, c)
       IN /\ w.cb.counts.Requests <= MaxCount
          /\ cb' = w.cb
          /\ call' = w.call
    /\ UNCHANGED <<settings, now, retryVars, oauthVars, calc, req, chain, extVars>>

ExecuteNext(c) ==
    /\ call[c].pc = "admitted"
    /\ \E o \in Outcomes : call' = afterExecuteNext(World, c, o).call
    /\ UNCHANGED <<cb, settings, now, retryVars, oauthVars, calc, req, chain, extVars>>

ExecuteAfter(c) ==
    /\ call[c].pc = "returned"
    /\ LET w == afterExecuteAfter(World, c)
       IN /\ cb' = w.cb
          /\ call' = w.call
    /\ UNCHANGED <<settings, now, retryVars, oauthVars, calc, req, chain, extVars>>

NextCB ==
    \/ Tick
    \/ State
    \/ \E c \in Callers : ExecuteBefore(c)
    \/ \E c \in Callers : ExecuteNext(c)
    \/ \E c \in Callers : ExecuteAfter(c)

SpecCB == CBInit /\ [][NextCB]_vars

(***************************************************************************)
(* Circuit breaker with its mutex: the same operations, each split at      *)
(* cb.mutex.Lock() (the goroutine waits until the mutex is free) and at    *)
(* the deferred Unlock (which runs when the locked function returns).      *)
(***************************************************************************)

\* mutant: the deferred Unlock is missing, the goroutine keeps the mutex
deferredUnlock_Held(g) == g

\* defer cb.mutex.Unlock(): the mutex after the locked function has returned
deferredUnlock(g) == Unlocked

MutexInit ==
    /\ settings \in SettingsSet
    /\ now = 1
    /\ cb = NewCircuitBreakerService(settings, now)
    /\ call = [c \in Callers |-> IdleCall]
    /\ mu = MuIdle
    /\ ProducerParked
    /\ OldParked
    /\ StackParked
    /\ ReqParked
    /\ ChainParked
    /\ RetryParked
    /\ OAuthParked
    /\ CalcParked

\* Execute calls beforeRequest, which takes the mutex
BeforeRequestLock(c) ==
    /\ call[c].pc = "idle"
    /\ mu.mutex = Unlocked
    /\ cb.counts.Requests < MaxLocked
    /\ mu' = [mu EXCEPT !.mutex = c]
    /\ call' = [call EXCEPT ![c].pc = "beforeLocked"]
    /\ UNCHANGED <<cb, settings, now, retryVars, oauthVars, calc, req, chain, restVars>>

\* beforeRequest under the mutex, up to its return
BeforeRequestBody(c) ==
    /\ call[c].pc = "beforeLocked"
    /\ LET w == afterExecuteBefore(World, c)
       IN /\ cb' = w.cb
          /\ call' = w.call
    /\ mu' = [mu EXCEPT !.mutex = deferredUnlock(c)]
    /\ UNCHANGED <<settings, now, retryVars, oauthVars, calc, req, chain, restVars>>

\* next(request): the wrapped call, which does not touch the mutex
WrappedCall(c) ==
    /\ call[c].pc = "admitted"
    /\ \E o \in Outcomes : call' = afterExecuteNext(World, c, o).call
    /\ UNCHANGED <<cb, settings, now, mu, retryVars, oauthVars, calc, req, chain, restVars>>

\* Execute calls afterRequest, which takes the mutex
AfterRequestLock(c) ==
    /\ call[c].pc = "returned"
    /\ mu.mutex = Unlocked
    /\ mu' = [mu EXCEPT !.mutex = c]
    /\ call' = [call EXCEPT ![c].pc = "afterLocked"]
    /\ UNCHANGED <<cb, settings, now, retryVars, oauthVars, calc, req, chain, restVars>>

\* afterRequest under the mutex, up to its return
AfterRequestBody(c) ==
    /\ call[c].pc = "afterLocked"
    /\ LET w == afterExecuteAfter(World, c)
       IN /\ cb' = w.cb
          /\ call' = w.call
    /\ mu' = [mu EXCEPT !.mutex = deferredUnlock(c)]
    /\ UNCHANGED <<settings, now, retryVars, oauthVars, calc, req, chain, restVars>>

\* State() or Counts() takes the mutex
ObserverLock ==
    /\ mu.obs.pc = "idle"
    /\ mu.mutex = Unlocked
    /\ \E op \in {"State", "Counts"} :
          mu' = [mu EXCEPT !.mutex = Observer, !.obs.pc = op]
    /\ UNCHANGED <<cbVars, retryVars, oauthVars, calc, req, chain, restVars>>

\* State() under the mutex: currentState, return the state
StateBody ==
    /\ mu.obs.pc = "State"
    /\ cb' = currentState(cb, settings, now)
    /\ mu' = [mu EXCEPT !.mutex = deferredUnlock(Observer),
                        !.obs.pc = "idle", !.obs.state = cb'.state]
    /\ UNCHANGED <<settings, now, call, retryVars, oauthVars, calc, req, chain, restVars>>

\* Counts() under the mutex: return a copy of the counts
CountsBody ==
    /\ mu.obs.pc = "Counts"
    /\ mu' = [mu EXCEPT !.mutex = deferredUnlock(Observer),
                        !.obs.pc = "idle", !.obs.counts = cb.counts]
    /\ UNCHANGED <<cbVars, retryVars, oauthVars, calc, req, chain, restVars>>

NextMutex ==
    \/ \E c \in Callers : BeforeRequestLock(c)
    \/ \E c \in Callers : BeforeRequestBody(c)
    \/ \E c \in Callers : WrappedCall(c)
    \/ \E c \in Callers : AfterRequestLock(c)
    \/ \E c \in Callers : AfterRequestBody(c)
    \/ ObserverLock
    \/ StateBody
    \/ CountsBody

SpecMutex == MutexInit /\ [][NextMutex]_vars

(***************************************************************************)
(* Retry middleware: one run of the responder built by RetryWithConfig.    *)
(***************************************************************************)
\* the breaker variables while another component is being checked
CBParked ==
    /\ settings = [maxRequests |-> 1, interval |-> 0, timeout |-> 1]
    /\ now = 1
    /\ cb = NewCircuitBreakerService(settings, now)
    /\ call = [c \in Callers |-> IdleCall]
    /\ ReqParked
    /\ ChainParked

RetryInit ==
    /\ ExtParked
    /\ config \in RetryConfigs
    /\ rt = RtStart
    /\ ctxErr = ErrNil
    /\ CBParked
    /\ OAuthParked
    /\ CalcParked

\* FromRequest: wrap the request; a body json.Marshal rejects ends the run
FromRequest ==
    /\ rt.pc = "start"
    /\ rt' = IF config.body = "unmarshalable"
             THEN [rt EXCEPT !.pc = "done", !.retResp = NilResponse,
                             !.retErr = [msg |-> ErrMarshal, attempt |-> 0]]
             ELSE [rt EXCEPT !.pc = "attempt"]
    /\ UNCHANGED <<config, ctxErr, cbVars, oauthVars, calc, req, chain, extVars>>

\* mutant: the error of the body producer is ignored
ProducerFailsAt_Never(n) == FALSE

\* body, err := req.body() returns an error in the n-th attempt; without a
\* producer (req.body == nil) nothing is called
ProducerFailsAt(n) == config.body # "nil" /\ producer = n

\* top of the loop: attempt++, rewind the body, run the hook, call next
Attempt ==
    /\ rt.pc = "attempt"
    /\ ~ProducerFailsAt(rt.attempt + 1)
    /\ \E o \in RetryOutcomes :
          rt' = [rt EXCEPT !.pc = "check", !.attempt = @ + 1, !.calls = @ + 1,
                           !.resp = o.resp, !.doErr = o.err,
                           !.drained = FALSE]
    /\ UNCHANGED <<config, ctxErr, cbVars, oauthVars, calc, req, chain, extVars>>

\* CheckRetry, then break (and compose the result) or drain the body and
\* compute the wait
Check ==
    /\ rt.pc = "check"
    /\ \E v \in CheckRetry(config.CheckRetry, ctxErr, rt.resp, rt.doErr) :
          LET r1 == [rt EXCEPT !.shouldRetry = v.shouldRetry,
                               !.checkErr = v.err,
                               !.decisions = Append(@, v.shouldRetry)]
              remain == config.RetryMax - rt.i
          IN IF LoopBreaks(v.shouldRetry, remain)
             THEN rt' = Compose(r1)
             ELSE \E w \in Backoff(config.Backoff, config.RetryWaitMin,
                                   config.RetryWaitMax, rt.i, rt.resp) :
                     rt' = [(IF rt.doErr = ErrNil THEN drainBody(r1) ELSE r1)
                               EXCEPT !.pc = "wait", !.wait = w,
                                      !.fired = (w = 0),
                                      !.waits = @ + 1]
    /\ UNCHANGED <<config, ctxErr, cbVars, oauthVars, calc, req, chain, extVars>>

\* the backoff duration passes: time.After(wait) delivers.  Once the context
\* is done a select still waiting for the timer has already taken the Done
\* case, so the timer only matters while the context is live.
TimerFires ==
    /\ rt.pc = "wait"
    /\ ~rt.fired
    /\ ctxErr = ErrNil
    /\ rt' = [rt EXCEPT !.fired = TRUE]
    /\ UNCHANGED <<config, ctxErr, cbVars, oauthVars, calc, req, chain, extVars>>

\* select: the time.After case is taken, the loop goes round (i++)
WaitElapsed ==
    /\ rt.pc = "wait"
    /\ rt.fired
    /\ rt' = [rt EXCEPT !.pc = "attempt", !.i = @ + 1]
    /\ UNCHANGED <<config, ctxErr, cbVars, oauthVars, calc, req, chain, extVars>>

\* mutant: the cancelled wait returns the last response with the error
WaitCancelled_KeepsResponse ==
    /\ rt.pc = "wait"
    /\ ctxErr # ErrNil
    /\ rt' = [rt EXCEPT !.pc = "done", !.retResp = rt.resp,
                        !.retErr = [msg |-> ctxErr, attempt |-> 0]]
    /\ UNCHANGED <<config, ctxErr, cbVars, oauthVars, calc, req, chain, extVars>>

\* select: the context is done, return nil, ctx.Err()
WaitCancelled ==
    /\ rt.pc = "wait"
    /\ ctxErr # ErrNil
    /\ rt' = [rt EXCEPT !.pc = "done", !.retResp = NilResponse,
                        !.retErr = [msg |-> ctxErr, attempt |-> 0]]
    /\ UNCHANGED <<config, ctxErr, cbVars, oauthVars, calc, req, chain, extVars>>

\* the caller cancels the request's context
Cancel ==
    /\ ctxErr = ErrNil
    /\ rt.pc # "done"
    /\ ctxErr' = ErrCanceled
    /\ UNCHANGED <<config, rt, cbVars, oauthVars, calc, req, chain, extVars>>

NextRetry ==
    \/ FromRequest
    \/ Attempt
    \/ Check
    \/ TimerFires
    \/ WaitElapsed
    \/ WaitCancelled
    \/ Cancel

SpecRetry == RetryInit /\ [][NextRetry]_vars

(***************************************************************************)
(* Retry middleware with a body producer that fails: the same loop, the    *)
(* request carrying a ReaderFunc that returns an error in one attempt.     *)
(***************************************************************************)
ProducerInit ==
    /\ MuParked
    /\ OldParked
    /\ StackParked
    /\ producer \in 1..(MaxRetryMax + 1)
    /\ config \in {c \in RetryConfigs : c.body = "reader"}
    /\ rt = RtStart
    /\ ctxErr = ErrNil
    /\ CBParked
    /\ OAuthParked
    /\ CalcParked

\* top of the loop, lines 217-224: attempt++, req.body() returns an error:
\* c.CloseIdleConnections() and return resp, err
ProducerFails ==
    /\ rt.pc = "attempt"
    /\ ProducerFailsAt(rt.attempt + 1)
    /\ rt' = [rt EXCEPT !.pc = "done", !.attempt = @ + 1,
                        !.retResp = rt.resp,
                        !.retErr = [msg |-> ErrProducer, attempt |-> 0]]
    /\ UNCHANGED <<config, ctxErr, cbVars, oauthVars, calc, req, chain, extVars>>

NextProducer ==
    \/ FromRequest
    \/ Attempt
    \/ ProducerFails
    \/ Check
    \/ TimerFires
    \/ WaitElapsed
    \/ WaitCancelled
    \/ Cancel

SpecProducer == ProducerInit /\ [][NextProducer]_vars


(***************************************************************************)
(* OAuth token cache: GetToken, step by step.                              *)
(***************************************************************************)
OAuthInit ==
    /\ ExtParked
    /\ svc = NewOAuthService
    /\ gt = [g \in Goroutines |-> GtIdle]
    /\ authServer = [calls |-> 0, log |-> <<>>]
    /\ CBParked
    /\ RetryParked
    /\ CalcParked

\* s.lock.RLock(): waits while a writer holds the lock
GetTokenRLock(g) ==
    /\ gt[g].pc = "idle"
    /\ svc.writer = 0
    /\ svc' = [svc EXCEPT !.readers = @ \cup {g}]
    /\ gt' = [gt EXCEPT ![g] = [GtIdle EXCEPT !.pc = "rlocked"]]
    /\ UNCHANGED <<authServer, cbVars, retryVars, calc, req, chain, extVars>>

\* mutant: the fast path is never taken, every call goes on to refresh
GetTokenRead_AlwaysRefreshes(g) ==
    /\ gt[g].pc = "rlocked"
    /\ gt' = [gt EXCEPT ![g] =
                 [@ EXCEPT !.pc = "lock", !.token = EmptyToken,
                           !.sawEmpty = (svc.token = NoToken),
                           !.saw = svc.token.AccessToken]]
    /\ svc' = [svc EXCEPT !.readers = @ \ {g}]
    /\ UNCHANGED <<authServer, now, cb, settings, call, retryVars, calc, req, chain, extVars>>

\* read the cache, s.lock.RUnlock(); return the token on a hit
GetTokenRead(g) ==
    /\ gt[g].pc = "rlocked"
    /\ LET token == CachedToken(svc, now)
       IN gt' = [gt EXCEPT ![g] =
                    IF token = EmptyToken
                    THEN [@ EXCEPT !.pc = "lock", !.token = token,
                                   !.sawEmpty = (svc.token = NoToken),
                                   !.saw = svc.token.AccessToken]
                    ELSE [@ EXCEPT !.pc = "idle", !.token = token,
                                   !.retToken = token, !.retErr = ErrNil,
                                   !.returned = TRUE,
                                   !.saw = svc.token.AccessToken]]
    /\ svc' = [svc EXCEPT !.readers = @ \ {g}]
    /\ UNCHANGED <<authServer, now, cb, settings, call, retryVars, calc, req, chain, extVars>>

\* mutant: the refresh does not wait for the lock
GetTokenLock_NoExclusion(g) ==
    /\ gt[g].pc = "lock"
    /\ authServer.calls < MaxRefresh
    /\ svc' = [svc EXCEPT !.writer = g]
    /\ authServer' = [authServer EXCEPT !.calls = @ + 1]
    /\ gt' = [gt EXCEPT ![g].pc = "fetching"]
    /\ UNCHANGED <<cbVars, retryVars, calc, req, chain, extVars>>

\* s.lock.Lock() once no reader and no writer holds the lock, then
\* getBearerToken sends the token request
GetTokenLock(g) ==
    /\ gt[g].pc = "lock"
    /\ svc.readers = {} /\ svc.writer = 0
    /\ authServer.calls < MaxRefresh
    /\ svc' = [svc EXCEPT !.writer = g]
    /\ authServer' = [authServer EXCEPT !.calls = @ + 1]
    /\ gt' = [gt EXCEPT ![g].pc = "fetching"]
    /\ UNCHANGED <<cbVars, retryVars, calc, req, chain, extVars>>

\* the token request succeeds: store the token, s.lock.Unlock(), return it
GetTokenRefreshed(g) ==
    /\ gt[g].pc = "fetching"
    /\ \E e \in ExpiresInValues :
          LET t == getBearerToken(authServer.calls, e, now)
          IN /\ svc' = [svc EXCEPT !.token = t, !.writer = 0]
             /\ gt' = [gt EXCEPT ![g].pc = "idle",
                                 ![g].token = t.AccessToken,
                                 ![g].retToken = t.AccessToken,
                                 ![g].retErr = ErrNil,
                                 ![g].returned = TRUE]
             /\ authServer' = [authServer EXCEPT !.log =
                    Append(@, [ok |-> TRUE, expiresIn |-> e,
                               expiry |-> t.ExpirationTokenTime])]
    /\ UNCHANGED <<cbVars, retryVars, calc, req, chain, extVars>>

\* mutant: a failed refresh drops the cached credential
GetTokenFailed_ClearsToken(g) ==
    /\ gt[g].pc = "fetching"
    /\ gt' = [gt EXCEPT ![g].pc = "idle", ![g].retToken = EmptyToken,
                        ![g].retErr = ErrRefresh, ![g].returned = TRUE]
    /\ authServer' = [authServer EXCEPT !.log =
           Append(@, [ok |-> FALSE, expiresIn |-> 0, expiry |-> ZeroTime])]
    /\ svc' = [svc EXCEPT !.token = NoToken]
    /\ UNCHANGED <<cbVars, retryVars, calc, req, chain, extVars>>

\* the token request fails: return "", err (the write lock is not released)
GetTokenFailed(g) ==
    /\ gt[g].pc = "fetching"
    /\ gt' = [gt EXCEPT ![g].pc = "idle", ![g].retToken = EmptyToken,
                        ![g].retErr = ErrRefresh, ![g].returned = TRUE]
    /\ authServer' = [authServer EXCEPT !.log =
           Append(@, [ok |-> FALSE, expiresIn |-> 0, expiry |-> ZeroTime])]
    /\ UNCHANGED <<svc, cbVars, retryVars, calc, req, chain, extVars>>

NextOAuth ==
    \/ Tick
    \/ \E g \in Goroutines : GetTokenRLock(g)
    \/ \E g \in Goroutines : GetTokenRead(g)
    \/ \E g \in Goroutines : GetTokenLock(g)
    \/ \E g \in Goroutines : GetTokenRefreshed(g)
    \/ \E g \in Goroutines : GetTokenFailed(g)

SpecOAuth == OAuthInit /\ [][NextOAuth]_vars

(***************************************************************************)
(* The policy functions, one call per behaviour.                           *)
(***************************************************************************)
CalcInit ==
    /\ ExtParked
    /\ calc \in PolicyInputs \cup BackoffInputs
    /\ CBParked
    /\ RetryParked
    /\ OAuthParked

SpecCalc == CalcInit /\ [][NextCalc]_vars

(***************************************************************************)
(* Circuit breaker: steps as seen by the properties below.                 *)
(***************************************************************************)
\* goroutine c runs afterRequest in this step
AfterStep(c) == call[c].pc = "returned" /\ call'[c].pc = "idle"

\* goroutine c runs beforeRequest in this step
BeforeStep(c) == call[c].pc = "idle" /\ call'[c] # call[c]

\* a step that runs currentState: State, beforeRequest or afterRequest (the
\* other steps are the passage of time and the wrapped call itself)
QueryStep ==
    /\ now' = now
    /\ ~ \E c \in Callers : call[c].pc = "admitted" /\ call'[c].pc = "returned"

\* the breaker as the state query at the start of an operation leaves it
Queried == currentState(cb, settings, now)

\* the counts a step leaves behind when it has started a new generation:
\* all zero, plus the call a beforeRequest admits in the same step
FreshCounts ==
    IF \E c \in Callers : BeforeStep(c)
    THEN countsOnRequest(ZeroCounts) ELSE ZeroCounts

\* a Closed breaker whose interval has elapsed: the next state query resets
ResetDue ==
    /\ cb.state = CircuitBreakerStateClosed
    /\ cb.expiry # ZeroTime
    /\ cb.expiry < now

\* the outcome goroutine c is about to report
Succeeded(c) == defaultIsSuccessful(call[c].result, call[c].nextErr)

\* C2 (as stated): an afterRequest of a call whose generation is no longer the
\* breaker's changes neither the counts nor the state of the breaker.
C2_StaleCallChangesNothing ==
    [][\A c \in Callers :
          (AfterStep(c) /\ cb.generation # call[c].generation)
              => (cb'.counts = cb.counts /\ cb'.state = cb.state)]_cbVars

\* C2 (amended): an afterRequest whose generation differs from the one the
\* state query returns discards the outcome: the breaker is left exactly as
\* the state query leaves it, so it is unchanged unless a timeout or interval
\* had elapsed.
C2_StaleCallIsOnlyAQuery ==
    [][\A c \in Callers :
          (AfterStep(c) /\ Queried.generation # call[c].generation)
              => /\ cb' = Queried
                 /\ (cb.state # CircuitBreakerStateOpen /\ cb.expiry = ZeroTime
                        => cb' = cb)]_cbVars

C2_Witness ==
    \E c \in Callers :
        /\ call[c].pc = "idle" /\ call[c].discarded /\ call[c].invoked = 1
        /\ call[c].err = ErrFail
        /\ cb.state = CircuitBreakerStateClosed
        /\ cb.counts.TotalFailures = 0

\* C3: with the default ReadyToTrip a Closed breaker opens exactly when the
\* 6th consecutive failure of the current generation is recorded; a shorter
\* run leaves it Closed with the run one longer, a success restarts the run
\* at zero, and nothing else opens a Closed breaker.
C3_TripsOnSixthConsecutiveFailure ==
    [][/\ \A c \in Callers :
            (AfterStep(c) /\ Queried.state = CircuitBreakerStateClosed
                /\ Queried.generation = call[c].generation)
            => IF Succeeded(c)
               THEN /\ cb'.state = CircuitBreakerStateClosed
                    /\ cb'.counts.ConsecutiveFailures = 0
               ELSE IF Queried.counts.ConsecutiveFailures + 1 = 6
               THEN cb'.state = CircuitBreakerStateOpen
               ELSE /\ Queried.counts.ConsecutiveFailures + 1 < 6
                    /\ cb'.state = CircuitBreakerStateClosed
                    /\ cb'.counts.ConsecutiveFailures
                          = Queried.counts.ConsecutiveFailures + 1
       /\ (cb.state = CircuitBreakerStateClosed
              /\ cb'.state = CircuitBreakerStateOpen)
           => \E c \in Callers :
                 /\ AfterStep(c) /\ ~Succeeded(c)
                 /\ Queried.generation = call[c].generation
                 /\ Queried.counts.ConsecutiveFailures = 5]_cbVars

C3_Witness ==
    /\ cb.state = CircuitBreakerStateOpen
    /\ cb.stateChange.from = CircuitBreakerStateClosed
    /\ cb.stateChange.to = CircuitBreakerStateOpen

\* C4: while the breaker is Open and its timeout has not elapsed, a call
\* through Execute returns (nil, ErrOpenState) without invoking the wrapped
\* function and leaves the breaker untouched, and the counts of an Open
\* breaker are all zero.
C4_OpenRejects ==
    /\ [](cb.state = CircuitBreakerStateOpen => cb.counts = ZeroCounts)
    /\ [][\A c \in Callers :
            (call[c].pc = "idle" /\ call'[c] # call[c]
                /\ cb.state = CircuitBreakerStateOpen /\ ~(cb.expiry < now))
            => /\ call'[c].pc = "idle"
               /\ call'[c].resp = RespNil
               /\ call'[c].err = ErrOpenState
               /\ call'[c].invoked = 0
               /\ cb' = cb]_cbVars

C4_Witness ==
    \E c \in Callers :
        /\ call[c].pc = "idle" /\ call[c].err = ErrOpenState
        /\ call[c].invoked = 0
        /\ cb.state = CircuitBreakerStateOpen /\ ~(cb.expiry < now)

\* C5: in Half-Open counts.Requests never exceeds maxRequests and at most
\* maxRequests calls of the generation are in flight; a call arriving when
\* the limit is reached returns (nil, ErrTooManyRequests) without invoking
\* the wrapped function and without changing the breaker.
C5_HalfOpenLimit ==
    /\ [](cb.state = CircuitBreakerStateHalfOpen
            => /\ cb.counts.Requests <= settings.maxRequests
               /\ Cardinality({c \in Callers :
                      /\ call[c].pc \in {"admitted", "returned"}
                      /\ call[c].generation = cb.generation})
                    <= settings.maxRequests)
    /\ [][\A c \in Callers :
            (call[c].pc = "idle" /\ call'[c] # call[c]
                /\ cb.state = CircuitBreakerStateHalfOpen
                /\ cb.counts.Requests >= settings.maxRequests)
            => /\ call'[c].pc = "idle"
               /\ call'[c].resp = RespNil
               /\ call'[c].err = ErrTooManyRequests
               /\ call'[c].invoked = 0
               /\ cb' = cb]_cbVars

C5_Witness ==
    \E c \in Callers :
        /\ call[c].pc = "idle" /\ call[c].err = ErrTooManyRequests
        /\ call[c].invoked = 0
        /\ cb.state = CircuitBreakerStateHalfOpen
        /\ cb.counts.Requests = settings.maxRequests
        /\ settings.maxRequests = 2

\* C6: a success recorded in Half-Open closes the breaker (counts zero)
\* exactly when it is the maxRequests-th consecutive success of the
\* generation; fewer successes leave it Half-Open, and nothing else moves a
\* Half-Open breaker to Closed.
C6_HalfOpenClosesAfterMaxRequestsSuccesses ==
    /\ [](cb.state = CircuitBreakerStateHalfOpen
            => cb.counts.ConsecutiveSuccesses < settings.maxRequests)
    /\ [][/\ \A c \in Callers :
              (AfterStep(c) /\ Succeeded(c)
                  /\ cb.state = CircuitBreakerStateHalfOpen
                  /\ cb.generation = call[c].generation)
              => IF cb.counts.ConsecutiveSuccesses + 1 = settings.maxRequests
                 THEN /\ cb'.state = CircuitBreakerStateClosed
                      /\ cb'.counts = ZeroCounts
                 ELSE /\ cb'.state = CircuitBreakerStateHalfOpen
                      /\ cb'.counts.ConsecutiveSuccesses
                            = cb.counts.ConsecutiveSuccesses + 1
          /\ (cb.state = CircuitBreakerStateHalfOpen
                 /\ cb'.state = CircuitBreakerStateClosed)
              => \E c \in Callers :
                    /\ AfterStep(c) /\ Succeeded(c)
                    /\ cb.generation = call[c].generation
                    /\ cb.counts.ConsecutiveSuccesses + 1
                          = settings.maxRequests]_cbVars

C6_Witness ==
    /\ cb.state = CircuitBreakerStateClosed
    /\ cb.stateChange.from = CircuitBreakerStateHalfOpen
    /\ cb.stateChange.to = CircuitBreakerStateClosed
    /\ settings.maxRequests = 2

\* C7: a failure of the current generation recorded in Half-Open opens the
\* breaker at once, whatever successes were recorded before, with counts
\* zero, a new generation and expiry = now + timeout.
C7_HalfOpenFailureOpens ==
    [][\A c \in Callers :
          (AfterStep(c) /\ ~Succeeded(c)
              /\ cb.state = CircuitBreakerStateHalfOpen
              /\ cb.generation = call[c].generation)
          => /\ cb'.state = CircuitBreakerStateOpen
             /\ cb'.counts = ZeroCounts
             /\ cb'.generation = cb.generation + 1
             /\ cb'.expiry = now + settings.timeout]_cbVars

C7_Witness ==
    /\ cb.state = CircuitBreakerStateOpen
    /\ cb.stateChange.from = CircuitBreakerStateHalfOpen
    /\ cb.stateChange.to = CircuitBreakerStateOpen
    /\ cb.expiry = now + settings.timeout
    /\ settings.maxRequests = 2

\* C8: a state query (currentState, run by State, beforeRequest and
\* afterRequest) on an Open breaker leaves it Open, untouched, until the
\* timeout has elapsed; the first query after that moves it to Half-Open
\* with counts at zero, a new generation and a zero expiry.  The operation
\* that ran the query leaves the breaker so, a beforeRequest having counted
\* on top the call it then admits.
C8_OpenToHalfOpenOnFirstQuery ==
    [][(cb.state = CircuitBreakerStateOpen /\ QueryStep)
          => IF cb.expiry < now
             THEN /\ Queried.state = CircuitBreakerStateHalfOpen
                  /\ Queried.counts = ZeroCounts
                  /\ Queried.generation = cb.generation + 1
                  /\ Queried.expiry = ZeroTime
                  /\ cb'.state = CircuitBreakerStateHalfOpen
                  /\ cb'.generation = cb.generation + 1
                  /\ cb'.expiry = ZeroTime
                  /\ cb'.counts = FreshCounts
             ELSE Queried = cb /\ cb' = cb]_cbVars

C8_Witness ==
    /\ cb.state = CircuitBreakerStateHalfOpen
    /\ cb.stateChange.from = CircuitBreakerStateOpen
    /\ cb.stateChange.to = CircuitBreakerStateHalfOpen
    /\ cb.counts = ZeroCounts
    /\ cb.expiry = ZeroTime

\* C18: every state transition and every closed-interval reset increases
\* the generation by exactly one and clears all five counts in the same
\* atomic step (a beforeRequest that does so counts the call it admits on
\* the cleared counts); the generation never decreases and changes in no
\* other step.
C18_GenerationDiscipline ==
    [][/\ cb'.generation >= cb.generation
       /\ (cb'.state # cb.state \/ (QueryStep /\ ResetDue))
            => /\ cb'.generation = cb.generation + 1
               /\ Queried.generation # cb.generation
                     => Queried.counts = ZeroCounts
               /\ cb'.counts = FreshCounts
       /\ cb'.generation # cb.generation
            => (cb'.state # cb.state \/ (QueryStep /\ ResetDue))]_cbVars

C18_Witness ==
    /\ cb.state = CircuitBreakerStateOpen
    /\ cb.stateChange.n = 1
    /\ cb.generation = 3
    /\ cb.counts = ZeroCounts
    /\ settings.interval = 1

\* C19: with interval > 0 a Closed generation expires interval after it
\* began; the first state query after that clears the counts and starts a
\* new generation, the state staying Closed and OnStateChange not being
\* called, and no earlier query does.  With interval = 0 a Closed breaker has
\* no expiry and stays in its generation with its counts until it trips.
C19_ClosedIntervalReset ==
    /\ [](cb.state = CircuitBreakerStateClosed
            => (cb.expiry = ZeroTime <=> settings.interval = 0))
    /\ [][/\ (QueryStep /\ ResetDue)
               => /\ settings.interval > 0
                  /\ Queried.counts = ZeroCounts
                  /\ Queried.generation = cb.generation + 1
                  /\ cb'.counts = FreshCounts
                  /\ cb'.generation = cb.generation + 1
                  /\ cb'.state = CircuitBreakerStateClosed
                  /\ cb'.stateChange = cb.stateChange
                  /\ cb'.expiry = now + settings.interval
          /\ (cb.state = CircuitBreakerStateClosed /\ ~ResetDue
                 /\ cb'.state = CircuitBreakerStateClosed)
               => /\ cb'.generation = cb.generation
                  /\ cb'.expiry = cb.expiry
                  /\ cb'.counts.Requests >= cb.counts.Requests
          /\ (cb'.state = CircuitBreakerStateClosed
                 /\ cb'.generation # cb.generation /\ settings.interval > 0)
               => cb'.expiry = now + settings.interval]_cbVars

C19_Witness ==
    /\ cb.state = CircuitBreakerStateClosed
    /\ settings.interval = 1
    /\ cb.generation = 2
    /\ cb.stateChange.n = 0
    /\ cb.counts = ZeroCounts
    /\ \E c \in Callers :
          call[c].pc = "idle" /\ call[c].invoked = 1 /\ ~call[c].discarded

\* C20: an admitted call invokes the wrapped function exactly once and
\* Execute returns exactly the response and error that function returned,
\* whatever the outcome does to the breaker; a call that is not admitted
\* invokes nothing and returns a nil response with ErrOpenState or
\* ErrTooManyRequests, the only errors of the breaker's own.
C20_Transparent ==
    \A c \in Callers :
        /\ call[c].invoked <= 1
        /\ call[c].pc = "admitted" => call[c].invoked = 0
        /\ call[c].pc = "returned" => call[c].invoked = 1
        /\ call[c].pc = "idle" =>
              IF call[c].invoked = 1
              THEN /\ call[c].resp = call[c].result
                   /\ call[c].err = call[c].nextErr
              ELSE /\ call[c].resp = RespNil
                   /\ call[c].err \in {ErrNil, ErrOpenState, ErrTooManyRequests}

C20_Witness ==
    /\ cb.state = CircuitBreakerStateOpen
    /\ cb.stateChange.from = CircuitBreakerStateClosed
    /\ \E c \in Callers :
          /\ call[c].pc = "idle" /\ call[c].invoked = 1
          /\ ~call[c].discarded
          /\ call[c].resp = 500 /\ call[c].err = ErrNil
    /\ \E c \in Callers :
          /\ call[c].pc = "idle" /\ call[c].invoked = 0
          /\ call[c].err = ErrOpenState

\* the calls of generation gen that were admitted and have not yet run
\* their afterRequest
InFlight(gen) ==
    Cardinality({c \in Callers :
                    /\ call[c].pc \in {"admitted", "returned"}
                    /\ call[c].generation = gen})

\* C21: no update of the counts is lost under concurrency: at any moment
\* Requests is the number of outcomes recorded in the generation plus its
\* calls still in flight, so when K concurrent calls of one Closed generation
\* have all completed with success the counts are (K, K, 0, K, 0); and a
\* Closed breaker rejects no call.
C21_NoLostUpdate ==
    /\ [](cb.counts.Requests
            = cb.counts.TotalSuccesses + cb.counts.TotalFailures
                + InFlight(cb.generation))
    /\ []((cb.state = CircuitBreakerStateClosed
            /\ cb.counts.TotalFailures = 0 /\ InFlight(cb.generation) = 0)
          => /\ cb.counts.TotalSuccesses = cb.counts.Requests
             /\ cb.counts.ConsecutiveSuccesses = cb.counts.Requests
             /\ cb.counts.ConsecutiveFailures = 0)
    /\ [][\A c \in Callers :
            (BeforeStep(c) /\ Queried.state = CircuitBreakerStateClosed)
                => /\ call'[c].pc = "admitted"
                   /\ cb'.counts.Requests = Queried.counts.Requests + 1]_cbVars

C21_Witness ==
    /\ cb.state = CircuitBreakerStateClosed
    /\ cb.generation = 1
    /\ cb.counts = [Requests |-> 4, TotalSuccesses |-> 4, TotalFailures |-> 0,
                    ConsecutiveSuccesses |-> 4, ConsecutiveFailures |-> 0]
    /\ \A c \in Callers :
          call[c].pc = "idle" /\ call[c].invoked = 1 /\ call[c].err = ErrNil

\* C22: OnStateChange is called exactly once in every step that changes the
\* state, with from = the state before and to = the state after, and in no
\* step that leaves the state as it was; no step changes the state twice.
C22_OnStateChangeOncePerChange ==
    [][IF cb'.state # cb.state
       THEN cb'.stateChange = [from |-> cb.state, to |-> cb'.state,
                               n |-> cb.stateChange.n + 1]
       ELSE cb'.stateChange = cb.stateChange]_cbVars

C22_Witness ==
    /\ cb.stateChange = [from |-> CircuitBreakerStateHalfOpen,
                         to |-> CircuitBreakerStateClosed, n |-> 3]
    /\ cb.state = CircuitBreakerStateClosed
    /\ cb.generation = 4

\* what the wrapped call returns when it succeeds, and when it fails
Success == [resp |-> 200, err |-> ErrNil]
Failure == [resp |-> RespNil, err |-> ErrFail]

\* one step of the program, every wrapped call returning o: a call in flight
\* goes on (afterRequest for one whose next has returned, else next
\* returns); with no call in flight an Open breaker is left to time out and
\* is then queried, and any other breaker is called
StepWith(w, o) ==
    IF \E c \in Callers : w.call[c].pc = "returned"
    THEN afterExecuteAfter(w, CHOOSE c \in Callers : w.call[c].pc = "returned")
    ELSE IF \E c \in Callers : w.call[c].pc = "admitted"
    THEN afterExecuteNext(w, CHOOSE c \in Callers : w.call[c].pc = "admitted",
                          o)
    ELSE IF w.cb.state = CircuitBreakerStateOpen
    THEN IF w.cb.expiry < w.now THEN afterState(w) ELSE afterTick(w)
    ELSE afterExecuteBefore(w, CHOOSE c \in Callers : TRUE)

\* these steps, at most k of them, take the breaker from w through every
\* state of the set G
RECURSIVE Visits(_, _, _, _)
Visits(w, o, G, k) ==
    LET rest == G \ {w.cb.state}
    IN IF rest = {} THEN TRUE
       ELSE IF k = 0 THEN FALSE
       ELSE Visits(StepWith(w, o), o, rest, k - 1)

\* C23: the breaker starts Closed (it is Closed as long as its state has not
\* changed), and from every reachable state each of
\* Closed, Open and Half-Open can be reached by some sequence of calls, call
\* outcomes and passage of time (Closed with calls that succeed, Open and
\* Half-Open with calls that fail): no state is terminal.
C23_NoTerminalState ==
    /\ cb.stateChange.n = 0 => cb.state = CircuitBreakerStateClosed
    /\ Visits(World, Success, {CircuitBreakerStateClosed}, MaxPath)
    /\ Visits(World, Failure,
              {CircuitBreakerStateOpen, CircuitBreakerStateHalfOpen}, MaxPath)

\* back in Closed after a full cycle, with a call of the first generation
\* still in flight, and Open more than six steps away
C23_Witness ==
    /\ cb.state = CircuitBreakerStateClosed
    /\ cb.stateChange.n = 3
    /\ \E c \in Callers : call[c].pc = "returned" /\ call[c].generation = 1
    /\ Visits(World, Failure, {CircuitBreakerStateOpen}, MaxPath)
    /\ ~Visits(World, Failure, {CircuitBreakerStateOpen}, 6)

(***************************************************************************)
(* Retry middleware: properties.                                           *)
(***************************************************************************)
\* every verdict of the check-retry policy so far was "retry"
AllRetryable == \A k \in 1..Len(rt.decisions) : rt.decisions[k]

\* the run ended in the backoff select on a cancelled context
CancelledInWait ==
    rt.pc = "done" /\ rt.retErr = [msg |-> ErrCanceled, attempt |-> 0]

\* C9 (as stated): a run whose every attempt the policy marked retryable
\* has invoked the wrapped call exactly RetryMax + 1 times when it returns.
C9_ExactlyRetryMaxPlusOne ==
    (rt.pc = "done" /\ rt.decisions # <<>> /\ AllRetryable)
        => rt.calls = config.RetryMax + 1

\* C9 (amended): as above unless the context was cancelled during a backoff
\* wait, which ends the run earlier; the wrapped call is never invoked more
\* than RetryMax + 1 times.
C9_RetryMaxPlusOneUnlessCancelled ==
    /\ rt.calls <= config.RetryMax + 1
    /\ (rt.pc = "done" /\ rt.decisions # <<>> /\ AllRetryable
            /\ ~CancelledInWait)
        => rt.calls = config.RetryMax + 1

C9_Witness ==
    /\ rt.pc = "done" /\ AllRetryable /\ ~CancelledInWait
    /\ config.RetryMax = 3
    /\ rt.calls = 4
    /\ rt.waits = 3

\* C10: whatever the configuration, once the policy has answered "do not
\* retry" for the first attempt the run is over with exactly one call of
\* the wrapped function and no backoff wait.
C10_NonRetryableFirstAttempt ==
    (Len(rt.decisions) >= 1 /\ ~rt.decisions[1])
        => /\ rt.pc = "done"
           /\ rt.calls = 1
           /\ rt.attempt = 1
           /\ rt.waits = 0

C10_Witness ==
    /\ rt.pc = "done"
    /\ rt.decisions = <<FALSE>>
    /\ rt.calls = 1 /\ rt.waits = 0
    /\ config.RetryMax = 3
    /\ config.RetryWaitMin = 1
    /\ config.Backoff = "LinearJitterBackoff"

\* the loop was left by one of its two breaks, so the result was composed
\* after the loop (every verdict but the last was followed by a wait)
LoopEnded == rt.pc = "done" /\ Len(rt.decisions) = rt.waits + 1

\* the verdicts so far: "retry" for every attempt but the last, "do not
\* retry" for the last
RetryableThenNot ==
    /\ rt.decisions # <<>>
    /\ \A k \in 1..(Len(rt.decisions) - 1) : rt.decisions[k]
    /\ ~rt.decisions[Len(rt.decisions)]

\* C11: when the first k attempts (k <= RetryMax) were retryable and attempt
\* k+1 got a non-retryable response with no call error and no policy error,
\* the run is over, the wrapped call was invoked exactly k+1 times and the
\* middleware returned that last response with a nil error.
C11_StopsOnFirstNonRetryable ==
    (RetryableThenNot /\ rt.doErr = ErrNil /\ rt.checkErr = ErrNil)
        => /\ rt.pc = "done"
           /\ Len(rt.decisions) <= config.RetryMax + 1
           /\ rt.calls = Len(rt.decisions)
           /\ rt.retResp = rt.resp
           /\ rt.retResp # NilResponse
           /\ rt.retErr = NoError

C11_Witness ==
    /\ rt.pc = "done"
    /\ rt.decisions = <<TRUE, TRUE, FALSE>>
    /\ config.RetryMax = 3
    /\ config.CheckRetry = "DefaultRetryPolicy"
    /\ rt.calls = 3
    /\ rt.retResp.status = 200
    /\ rt.retErr = NoError

\* C12: when the retries are exhausted (the policy still says "retry" after
\* attempt RetryMax + 1) and the last attempt set neither a call error nor a
\* policy error, the middleware returns the last response with a nil error.
C12_ExhaustedWithoutError ==
    (/\ rt.pc = "done"
     /\ Len(rt.decisions) = config.RetryMax + 1
     /\ rt.decisions[Len(rt.decisions)]
     /\ rt.doErr = ErrNil /\ rt.checkErr = ErrNil)
        => /\ rt.retResp = rt.resp
           /\ rt.retResp # NilResponse
           /\ rt.retErr = NoError

C12_Witness ==
    /\ rt.pc = "done"
    /\ config.RetryMax = 3
    /\ config.CheckRetry = "DefaultRetryPolicy"
    /\ rt.decisions = <<TRUE, TRUE, TRUE, TRUE>>
    /\ rt.calls = 4
    /\ rt.resp.status = 500
    /\ rt.retResp.status = 500
    /\ rt.retErr = NoError

\* C13: when the loop ends with a policy error or a call error set, the
\* middleware returns a nil response and an error wrapping the policy error
\* if there is one and the call error otherwise, annotated with the number
\* of times the wrapped call was invoked.
C13_GivingUpWrapsError ==
    (LoopEnded /\ (rt.checkErr # ErrNil \/ rt.doErr # ErrNil))
        => /\ rt.retResp = NilResponse
           /\ rt.retErr.msg =
                 (IF rt.checkErr # ErrNil THEN rt.checkErr ELSE rt.doErr)
           /\ rt.retErr.attempt = rt.calls
           /\ rt.calls >= 1

C13_Witness ==
    /\ LoopEnded
    /\ rt.checkErr = ErrPolicy /\ rt.doErr = ErrFail
    /\ rt.retErr = [msg |-> ErrPolicy, attempt |-> 2]
    /\ rt.calls = 2
    /\ rt.retResp = NilResponse

\* C14: when the context is cancelled while the middleware waits for the
\* backoff duration (the timer has not fired), the next step of the run
\* returns a nil response and the context's error without another call of
\* the wrapped function, and a run that has returned does nothing more.
C14_CancelledWaitReturnsContextError ==
    [][/\ (rt.pc = "wait" /\ ~rt.fired /\ ctxErr # ErrNil)
            => /\ rt'.pc = "done"
               /\ rt'.retResp = NilResponse
               /\ rt'.retErr.msg = ctxErr
               /\ rt'.calls = rt.calls
       /\ rt.pc = "done" => rt' = rt]_retryVars

C14_Witness ==
    /\ rt.pc = "done"
    /\ rt.waits = Len(rt.decisions)
    /\ rt.wait > 0 /\ ~rt.fired
    /\ ctxErr = ErrCanceled
    /\ rt.retErr.msg = ErrCanceled
    /\ rt.retResp = NilResponse
    /\ rt.resp.status = 503
    /\ rt.calls = 2
    /\ config.RetryMax = 3

(***************************************************************************)
(* OAuth token cache: properties.                                          *)
(***************************************************************************)
\* C1: callers that all found the cache empty (no token fetched yet) and
\* have all returned, the first token fetched being good and still valid,
\* caused exactly one refresh call and all returned the same token.
C1_ConcurrentCallersRefreshOnce ==
    (/\ \A g \in Goroutines :
            gt[g].pc = "idle" /\ gt[g].returned /\ gt[g].sawEmpty
     /\ Len(authServer.log) >= 1
     /\ authServer.log[1].ok
     /\ now < authServer.log[1].expiry)
        => /\ authServer.calls = 1
           /\ \A g, h \in Goroutines : gt[g].retToken = gt[h].retToken

\* goroutine g reads the cache in this step (GetToken, lines 84-88)
ReadStep(g) == gt[g].pc = "rlocked" /\ gt'[g].pc # "rlocked"

\* goroutine g's refresh call fails in this step
RefreshFailsStep(g) ==
    gt[g].pc = "fetching" /\ gt'[g].pc = "idle" /\ gt'[g].retErr # ErrNil

\* C15: a GetToken whose refresh call fails returns an empty token and the
\* refresh error and leaves the cached credential (token and expiry) as it
\* was; nothing else touches the credential while the refresh is in flight.
C15_FailedRefreshKeepsCredential ==
    [][\A g \in Goroutines :
          /\ RefreshFailsStep(g)
                => /\ gt'[g].retToken = EmptyToken
                   /\ gt'[g].retErr = ErrRefresh
                   /\ gt'[g].returned
                   /\ svc'.token = svc.token
          /\ (gt[g].pc = "fetching" /\ gt'[g].pc = "fetching")
                => svc'.token = svc.token]_oauthVars

C15_Witness ==
    \E g \in Goroutines :
        /\ gt[g].pc = "idle" /\ gt[g].returned
        /\ gt[g].retErr = ErrRefresh /\ gt[g].retToken = EmptyToken
        /\ gt[g].saw = 1
        /\ svc.token.AccessToken = 1
        /\ Len(authServer.log) = 2 /\ ~authServer.log[2].ok

ZeroLifetime(n) ==
    /\ n \in 1..Len(authServer.log)
    /\ authServer.log[n].ok
    /\ authServer.log[n].expiresIn = 0

\* C17: a credential obtained with expires_in = 0 is never served from the
\* cache: a GetToken that finds it there goes on to refresh, and when it
\* returns a token it is one fetched after that credential.
C17_ZeroLifetimeNeverServed ==
    /\ [][\A g \in Goroutines :
            (ReadStep(g) /\ ZeroLifetime(svc.token.AccessToken))
                => gt'[g].pc = "lock"]_oauthVars
    /\ [](\A g \in Goroutines :
            (gt[g].returned /\ gt[g].pc = "idle" /\ gt[g].retErr = ErrNil
                /\ ZeroLifetime(gt[g].saw))
            => /\ gt[g].retToken > gt[g].saw
               /\ authServer.log[gt[g].retToken].ok)

C17_Witness ==
    \E g \in Goroutines :
        /\ gt[g].pc = "idle" /\ gt[g].returned /\ gt[g].retErr = ErrNil
        /\ gt[g].saw = 1 /\ ZeroLifetime(1)
        /\ gt[g].retToken = 2
        /\ authServer.calls = 2

\* C29: GetToken releases its lock on every return path: a goroutine that
\* is outside GetToken holds neither the write lock nor a read lock, so a
\* failed refresh cannot block the GetToken calls that follow it.
C29_LockReleasedOnReturn ==
    \A g \in Goroutines :
        gt[g].pc = "idle" => (svc.writer # g /\ g \notin svc.readers)

\* goroutine g's call to the auth server is in flight
RefreshInFlight(g) == gt[g].pc = "fetching"

\* C30: at most one refresh call is in flight at any time, and the write
\* lock is held by the refreshing goroutine for the whole call; while it is
\* in flight no goroutine reads the cached credential and nothing but the
\* completion of that refresh replaces it.
C30_SingleRefreshInFlight ==
    /\ [](\A g, h \in Goroutines :
            (RefreshInFlight(g) /\ RefreshInFlight(h)) => g = h)
    /\ [](\A g \in Goroutines :
            RefreshInFlight(g) => (svc.writer = g /\ svc.readers = {}))
    /\ [][\A g \in Goroutines :
            RefreshInFlight(g)
                => /\ \A h \in Goroutines : ~ReadStep(h)
                   /\ svc'.token # svc.token
                         => /\ gt'[g].pc = "idle"
                            /\ gt'[g].retErr = ErrNil
                            /\ svc'.token.AccessToken = gt'[g].retToken]_oauthVars

C30_Witness ==
    \E g, h \in Goroutines :
        /\ g # h
        /\ RefreshInFlight(g)
        /\ gt[h].pc = "lock"
        /\ svc.token # NoToken
        /\ authServer.calls = 2

(***************************************************************************)
(* Policy functions: properties.                                           *)
(***************************************************************************)
\* DefaultRetryPolicy has returned
PolicyReturned == calc.pc = "out" /\ calc.fn = "DefaultRetryPolicy"

\* DefaultBackoff has returned
BackoffReturned == calc.pc = "out" /\ calc.fn = "DefaultBackoff"

\* C24 (as stated): with the context done the policy returns (false, the
\* context's error); otherwise it returns true for a call error, for 429,
\* for 5xx other than 501 and for status 0, and false for every other
\* status.
C24_PolicyRetries5xx ==
    PolicyReturned =>
        IF calc.ctx # ErrNil
        THEN calc.out.shouldRetry = FALSE /\ calc.out.err = calc.ctx
        ELSE calc.out.shouldRetry =
                (\/ calc.err # ErrNil
                 \/ calc.resp.status = 429
                 \/ (calc.resp.status \in 500..599 /\ calc.resp.status # 501)
                 \/ calc.resp.status = 0)

\* C24 (amended): as above, with "every status from 500 up other than 501"
\* (600 and 999 included) in the place of "5xx other than 501".
C24_PolicyRetriesFrom500 ==
    PolicyReturned =>
        IF calc.ctx # ErrNil
        THEN calc.out.shouldRetry = FALSE /\ calc.out.err = calc.ctx
        ELSE calc.out.shouldRetry =
                (\/ calc.err # ErrNil
                 \/ calc.resp.status = 429
                 \/ (calc.resp.status >= 500 /\ calc.resp.status # 501)
                 \/ calc.resp.status = 0)

C24_Witness ==
    /\ PolicyReturned
    /\ calc.ctx = ErrNil /\ calc.err = ErrNil
    /\ calc.resp.status = 999
    /\ calc.out.shouldRetry

\* the response carries a Retry-After header DefaultBackoff uses
UsableRetryAfter ==
    /\ calc.resp # NilResponse
    /\ calc.resp.status \in {429, 503}
    /\ calc.resp.retryAfter \notin {NoHeader, BadHeader}

\* min(max, min * 2^attemptNum), the formula of the specification
CappedExponential(min, max, attemptNum) ==
    LET mult == min * (2 ^ attemptNum)
    IN IF mult > max THEN max ELSE mult

\* C25: without a usable Retry-After header DefaultBackoff returns
\* min(max, min * 2^attemptNum) for every attemptNum >= 0, a value that
\* never exceeds max and is never below that of the attempt before.
C25_ExponentialCapped ==
    (BackoffReturned /\ ~UsableRetryAfter)
        => /\ calc.out.wait
                 = CappedExponential(calc.min, calc.max, calc.attemptNum)
           /\ calc.out.wait <= calc.max
           /\ calc.attemptNum > 0
                 => DefaultBackoff(calc.min, calc.max, calc.attemptNum - 1,
                                   calc.resp) <= calc.out.wait

\* C26: with status 429 or 503 and a Retry-After header that parses as an
\* integer, DefaultBackoff returns exactly that many seconds, whatever min,
\* max and attemptNum are; in every other case it returns what the
\* exponential branch returns.
C26_RetryAfterVerbatim ==
    BackoffReturned
        => IF UsableRetryAfter
           THEN calc.out.wait = Second * calc.resp.retryAfter
           ELSE calc.out.wait
                    = Exponential(calc.min, calc.max, calc.attemptNum)

(***************************************************************************)
(* A request with a byte-slice body through the retry loop.                *)
(***************************************************************************)
BodyInit ==
    /\ ExtParked
    /\ req \in {NewHTTPRequest(b) : b \in ByteSlices}
    /\ ChainParked
    /\ settings = [maxRequests |-> 1, interval |-> 0, timeout |-> 1]
    /\ now = 1
    /\ cb = NewCircuitBreakerService(settings, now)
    /\ call = [c \in Callers |-> IdleCall]
    /\ RetryParked
    /\ OAuthParked
    /\ CalcParked

SpecBody == BodyInit /\ [][NextBody]_vars

(***************************************************************************)
(* Request bodies: properties.                                             *)
(***************************************************************************)
\* C27: for a request built from a byte slice, every attempt of the retry
\* loop is sent with a fresh stream (read position 0) over exactly the bytes
\* of the slice, whatever the earlier attempts read of theirs.
C27_BodyRoundTrip ==
    \A k \in 1..Len(req.sent) :
        /\ req.sent[k].s = req.rawBody
        /\ req.sent[k].i = 0

(***************************************************************************)
(* The middleware chain of one client.                                     *)
(***************************************************************************)
ChainInit ==
    /\ ExtParked
    /\ chain = NewClient
    /\ CBParked
    /\ RetryParked
    /\ OAuthParked
    /\ CalcParked

SpecChain == ChainInit /\ [][NextChain]_vars

(***************************************************************************)
(* Middleware chain: properties.                                           *)
(***************************************************************************)
\* the layer in k-th place from the outside when the middleware handed to
\* applyMiddleware is applied from first to last
Registered(k) ==
    IF k <= Len(chain.applied) THEN chain.applied[k]
    ELSE defaultResponder

\* the k-th layer that ran answered the request without calling next
Answered(k) ==
    /\ chain.seen[k].layer # defaultResponder
    /\ chain.seen[k].layer.method = chain.seen[k].request.method

IntBits == 4

\* int arithmetic wraps
WrapInt(x) == ((x + 2 ^ (IntBits - 1)) % (2 ^ IntBits)) - 2 ^ (IntBits - 1)

ErrGivingUp == "giving up"

\* DefaultRetryPolicy of package retryablehttp: a status of 0 or from 500
\* up other than 501 is retried and reported as an error
retryablehttpDefaultRetryPolicy(ctx, resp, err) ==
    IF ctx # ErrNil THEN [shouldRetry |-> FALSE, err |-> ctx]
    ELSE IF err # ErrNil THEN [shouldRetry |-> TRUE, err |-> ErrNil]
    ELSE IF resp.status = 429 THEN [shouldRetry |-> TRUE, err |-> ErrNil]
    ELSE IF resp.status = 0 \/ (resp.status >= 500 /\ resp.status # 501)
         THEN [shouldRetry |-> TRUE, err |-> ErrUnexpectedStatus]
    ELSE [shouldRetry |-> FALSE, err |-> ErrNil]

\* client.CheckRetry: the default policy, or a caller-supplied policy that
\* may answer anything
ClientCheckRetry(policy, ctx, resp, err) ==
    IF policy = "DefaultRetryPolicy"
    THEN {retryablehttpDefaultRetryPolicy(ctx, resp, err)}
    ELSE [shouldRetry : BOOLEAN, err : {ErrNil, ErrPolicy}]

\* Do after the loop, lines 153-171: the response on success, else nil and
\* an error that wraps the policy's or the call's error if there is one
DoReturn(r) ==
    IF r.doErr = ErrNil /\ r.checkErr = ErrNil /\ ~r.shouldRetry
    THEN [r EXCEPT !.pc = "done", !.retResp = r.resp, !.retErr = NoError]
    ELSE LET err == IF r.checkErr # ErrNil THEN r.checkErr ELSE r.doErr
         IN [r EXCEPT !.pc = "done", !.retResp = NilResponse,
                      !.retErr = [msg |-> IF err = ErrNil THEN ErrGivingUp
                                          ELSE err,
                                  attempt |-> r.attempt]]

\* the variables Client.Do leaves alone
notOld ==
    <<cbVars, retryVars, oauthVars, calc, req, chain, mu, producer, stack>>

DoInit ==
    /\ old \in {[DoStart EXCEPT !.body = b, !.RetryMax = m,
                                !.CheckRetry = p] :
                    b \in BOOLEAN, m \in 0..MaxRetryMax,
                    p \in {"DefaultRetryPolicy", "custom"}}
    /\ MuParked
    /\ ProducerParked
    /\ StackParked
    /\ CBParked
    /\ RetryParked
    /\ OAuthParked
    /\ CalcParked

\* lines 113-116 of a request with a body producer: attempt++, rewind the
\* body, run the hook; the HTTP call is next
DoRewind ==
    /\ old.pc = "loop"
    /\ old.body
    /\ old' = [old EXCEPT !.pc = "call", !.attempt = WrapInt(@ + 1)]
    /\ UNCHANGED notOld

\* lines 113-116 and 151-152 of a request without a body producer:
\* attempt++, the if is skipped, i++, and the loop goes round
DoSkip ==
    /\ old.pc = "loop"
    /\ ~old.body
    /\ old' = [old EXCEPT !.attempt = WrapInt(@ + 1), !.i = WrapInt(@ + 1)]
    /\ UNCHANGED notOld

\* line 133: resp, doErr = client.httpClient.Do(req.Request)
DoCall ==
    /\ old.pc = "call"
    /\ \E o \in RetryOutcomes :
          old' = [old EXCEPT !.pc = "check", !.calls = @ + 1,
                             !.resp = o.resp, !.doErr = o.err]
    /\ UNCHANGED notOld

\* lines 136-152: CheckRetry, then break and return, or drain the body, i++
\* and round the loop
DoCheck ==
    /\ old.pc = "check"
    /\ \E v \in ClientCheckRetry(old.CheckRetry, old.ctx, old.resp, old.doErr) :
          LET r1 == [old EXCEPT !.shouldRetry = v.shouldRetry,
                                !.checkErr = v.err,
                                !.decisions = Append(@, v.shouldRetry)]
              remain == old.RetryMax - old.i
          IN IF ~v.shouldRetry \/ remain <= 0
             THEN old' = DoReturn(r1)
             ELSE old' = [r1 EXCEPT !.pc = "loop", !.i = WrapInt(@ + 1)]
    /\ UNCHANGED notOld

\* the caller cancels the request's context
DoCancel ==
    /\ old.ctx = ErrNil
    /\ old.pc # "done"
    /\ old' = [old EXCEPT !.ctx = ErrCanceled]
    /\ UNCHANGED notOld

NextDo ==
    \/ DoRewind
    \/ DoSkip
    \/ DoCall
    \/ DoCheck
    \/ DoCancel

SpecDo == DoInit /\ [][NextDo]_vars

\* a goroutine that can take a step takes one
SpecDoFair == SpecDo /\ WF_vars(NextDo)

(***************************************************************************)
(* Stacked middleware: client.Use(...) with the circuit breaker and the    *)
(* retry middleware (default policy) in either order, then the OAuth       *)
(* middleware, then the transport.  applyMiddleware makes each layer's     *)
(* next the layer registered after it; every layer is handed the same      *)
(* *http.Request.                                                          *)
(***************************************************************************)
Orders == {"breaker-retry", "retry-breaker"}

StackSettings == [maxRequests : {1}, interval : {0, 1}, timeout : {1}]

\* the access tokens the auth server issues, one after the other
StackTokens == {1, 2}

\* what the transport may return: a response without error, or an error
\* with a nil response
StackOutcomes ==
    [resp : [status : {200, 500}, retryAfter : {NoHeader}], err : {ErrNil}]
        \cup {[resp |-> NilResponse, err |-> ErrFail]}

\* the variables a request through the stack leaves alone
notStack ==
    <<settings, call, retryVars, oauthVars, calc, req, chain, mu, producer, old>>

\* what s.GetToken() may return when the cache holds tok: the cached token,
\* a refreshed one, or the error of a failed refresh
GetTokenResults(tok) ==
    {[token |-> t, err |-> ErrNil] :
        t \in {tok, tok + 1} \cap StackTokens}
    \cup {[token |-> tok, err |-> ErrRefresh]}

\* request.Header.Add(key, value): one more value under the key
HeaderAdd(h, v) == Append(h, v)

\* the responder of RetryWithConfig has returned: its locals are gone
RetryReturned(s) ==
    [s EXCEPT !.i = 0, !.attempt = 0, !.resp = NilResponse, !.doErr = ErrNil,
              !.checkErr = ErrNil, !.shouldRetry = FALSE]

\* the responder of Execute has returned: its locals are gone
ExecuteReturned(s) ==
    [s EXCEPT !.generation = 0, !.result = NilResponse, !.resultErr = NoError]

\* a layer below both the breaker and the retry loop returns (resp, err) to
\* the lower of the two
ReturnUp(s, resp, err) ==
    IF s.order = "breaker-retry"
    THEN [s EXCEPT !.pc = "check", !.resp = resp, !.doErr = err]
    ELSE [s EXCEPT !.pc = "after", !.result = resp,
                   !.resultErr = [msg |-> err, attempt |-> 0]]

StackInit ==
    /\ settings \in StackSettings
    /\ now = 1
    /\ cb = NewCircuitBreakerService(settings, now)
    /\ call = [c \in Callers |-> IdleCall]
    /\ stack \in {[StackIdle EXCEPT !.order = o, !.RetryMax = m] :
                      o \in Orders, m \in 0..MaxRetryMax}
    /\ MuParked
    /\ ProducerParked
    /\ OldParked
    /\ ReqParked
    /\ ChainParked
    /\ RetryParked
    /\ OAuthParked
    /\ CalcParked

\* c.Do(request) with a new request: RoundTrip calls the outermost layer
StackRoundTrip ==
    /\ stack.pc \in {"idle", "done"}
    /\ cb.counts.Requests + stack.RetryMax <= MaxCount
    /\ stack' = [StackIdle EXCEPT
                    !.order = stack.order, !.RetryMax = stack.RetryMax,
                    !.token = stack.token,
                    !.pc = IF stack.order = "breaker-retry" THEN "breaker"
                           ELSE "retry"]
    /\ UNCHANGED <<cb, now, notStack>>

\* Execute, lines 182-185: beforeRequest; on an error return nil, err
StackBeforeRequest ==
    /\ stack.pc = "breaker"
    /\ LET r == beforeRequest(cb, settings, now)
           q == currentState(cb, settings, now)
           s == [stack EXCEPT
                    !.befores = @ + 1,
                    !.counted = @ + (r.cb.counts.Requests - q.counts.Requests)]
       IN /\ cb' = r.cb
          /\ stack' =
               IF r.err = ErrNil
               THEN [s EXCEPT !.generation = r.generation,
                              !.pc = IF s.order = "breaker-retry"
                                     THEN "retry" ELSE "oauth"]
               ELSE IF s.order = "breaker-retry"
               THEN [s EXCEPT !.rejects = @ + 1, !.pc = "done",
                              !.retResp = NilResponse,
                              !.retErr = [msg |-> r.err, attempt |-> 0]]
               ELSE [s EXCEPT !.rejects = @ + 1, !.pc = "check",
                              !.resp = NilResponse, !.doErr = r.err]
    /\ UNCHANGED <<now, notStack>>

\* Execute, lines 189-190: afterRequest(generation, isSuccessful(result,
\* err)) and return result, err
StackAfterRequest ==
    /\ stack.pc = "after"
    /\ LET success == defaultIsSuccessful(stack.result.status,
                                          stack.resultErr.msg)
           b == afterRequest(cb, settings, stack.generation, success, now)
           q == currentState(cb, settings, now)
           s == [stack EXCEPT
                    !.afters = @ + 1,
                    !.recorded = @ + (IF b # q THEN 1 ELSE 0),
                    !.discarded = (q.generation # stack.generation)]
       IN /\ cb' = b
          /\ stack' =
               ExecuteReturned(
                   IF s.order = "breaker-retry"
                   THEN [s EXCEPT !.pc = "done", !.retResp = s.result,
                                  !.retErr = s.resultErr]
                   ELSE [s EXCEPT !.pc = "check", !.resp = s.result,
                                  !.doErr = s.resultErr.msg])
    /\ UNCHANGED <<now, notStack>>

\* the responder of RetryWithConfig is called: FromRequest, then the loop
StackRetry ==
    /\ stack.pc = "retry"
    /\ stack' = [stack EXCEPT !.pc = "attempt", !.retries = @ + 1]
    /\ UNCHANGED <<cb, now, notStack>>

\* top of the loop: attempt++, then resp, doErr = next(request)
StackAttempt ==
    /\ stack.pc = "attempt"
    /\ stack' = [stack EXCEPT
                    !.attempt = @ + 1,
                    !.afterReject = @ + (IF stack.rejects > 0 THEN 1 ELSE 0),
                    !.pc = IF stack.order = "breaker-retry" THEN "oauth"
                           ELSE "breaker"]
    /\ UNCHANGED <<cb, now, notStack>>

\* CheckRetry (the default policy), then break and return, or i++ and round
\* the loop after the backoff wait
StackCheck ==
    /\ stack.pc = "check"
    /\ LET v == DefaultRetryPolicy(ErrNil, stack.resp, stack.doErr)
           r1 == [stack EXCEPT !.shouldRetry = v.shouldRetry,
                               !.checkErr = v.err]
       IN stack' =
            IF LoopBreaks(v.shouldRetry, stack.RetryMax - stack.i)
            THEN LET c == Compose(r1)
                 IN RetryReturned(
                        IF stack.order = "breaker-retry"
                        THEN [r1 EXCEPT !.pc = "after", !.result = c.retResp,
                                        !.resultErr = c.retErr]
                        ELSE c)
            ELSE [r1 EXCEPT !.pc = "attempt", !.i = @ + 1]
    /\ UNCHANGED <<cb, now, notStack>>

\* the responder of OAuthWithClient: AddAuthorizationHeader, then
\* next(request); on an error of GetToken return nil, err
StackAddAuthorizationHeader ==
    /\ stack.pc = "oauth"
    /\ \E g \in GetTokenResults(stack.token) :
          stack' =
            IF g.err # ErrNil THEN ReturnUp(stack, NilResponse, g.err)
            ELSE [stack EXCEPT !.token = g.token,
                               !.header = HeaderAdd(@, g.token),
                               !.pc = "transport"]
    /\ UNCHANGED <<cb, now, notStack>>

\* the transport sends the request as it is and answers
StackTransport ==
    /\ stack.pc = "transport"
    /\ \E o \in StackOutcomes :
          stack' = ReturnUp([stack EXCEPT !.transports = @ + 1,
                                          !.sent = stack.header],
                            o.resp, o.err)
    /\ UNCHANGED <<cb, now, notStack>>

\* time passes
StackTick ==
    /\ now < MaxTime
    /\ now' = now + 1
    /\ UNCHANGED <<cb, stack, notStack>>

NextStack ==
    \/ StackRoundTrip
    \/ StackBeforeRequest
    \/ StackAfterRequest
    \/ StackRetry
    \/ StackAttempt
    \/ StackCheck
    \/ StackAddAuthorizationHeader
    \/ StackTransport
    \/ StackTick

SpecStack == StackInit /\ [][NextStack]_vars

(***************************************************************************)
(* Circuit breaker: invariants of the counts and of the expiry, and the    *)
(* Half-Open state.                                                        *)
(***************************************************************************)

C37_ExpiryInvariant ==
    /\ cb.state = CircuitBreakerStateHalfOpen => cb.expiry = ZeroTime
    /\ cb.state = CircuitBreakerStateOpen => cb.expiry # ZeroTime
    /\ cb.state = CircuitBreakerStateClosed
          => (cb.expiry # ZeroTime <=> settings.interval > 0)

\* the breaker has been through Open and Half-Open and has closed again
\* under a cyclic interval
C37_Witness ==
    /\ cb.stateChange.from = CircuitBreakerStateHalfOpen
    /\ cb.stateChange.to = CircuitBreakerStateClosed
    /\ cb.state = CircuitBreakerStateClosed
    /\ settings.interval > 0
    /\ cb.expiry = now + settings.interval

\* the times at which a later operation may read the clock
LaterTimes == now..(MaxTime + 2)

\* C38: in Half-Open no state query at any later time changes the breaker,
\* and once maxRequests calls are admitted every beforeRequest is rejected
\* with ErrTooManyRequests and changes nothing; the breaker leaves Half-Open
\* only in the afterRequest of a call admitted in the current generation.
C38_HalfOpenNoTimeout ==
    /\ [](cb.state = CircuitBreakerStateHalfOpen
            => \A t \in LaterTimes :
                  /\ currentState(cb, settings, t) = cb
                  /\ cb.counts.Requests >= settings.maxRequests
                        => beforeRequest(cb, settings, t)
                             = [cb |-> cb, generation |-> cb.generation,
                                err |-> ErrTooManyRequests])
    /\ [][(cb.state = CircuitBreakerStateHalfOpen
             /\ cb'.state # CircuitBreakerStateHalfOpen)
            => \E c \in Callers :
                  /\ call[c].pc = "returned"
                  /\ call'[c].pc = "idle"
                  /\ call[c].generation = cb.generation]_vars

\* Half-Open with its one admission in flight and another caller rejected
C38_Witness ==
    /\ cb.state = CircuitBreakerStateHalfOpen
    /\ settings.maxRequests = 1
    /\ cb.counts.Requests = 1
    /\ call[1].pc = "admitted"
    /\ call[1].generation = cb.generation
    /\ call[2].pc = "idle"
    /\ call[2].err = ErrTooManyRequests

(***************************************************************************)
(* Circuit breaker: the mutex and the wrapped call.                        *)
(***************************************************************************)

\* goroutine c is between the return of beforeRequest and the call of
\* afterRequest: its wrapped call is running or has just returned
CallInFlight(c) == call[c].pc \in {"admitted", "returned"}

\* C31: a goroutine whose wrapped call is in flight does not hold the
\* breaker's mutex; the mutex is held only by a goroutine inside
\* beforeRequest, afterRequest, State or Counts, none of which waits for
\* anything, so other callers and the queries get the mutex meanwhile; and a
\* Closed breaker admits the next caller whatever is in flight.
C31_LockNotHeldDuringCall ==
    /\ \A c \in Callers :
          /\ CallInFlight(c) => mu.mutex # c
          /\ mu.mutex = c <=> call[c].pc \in {"beforeLocked", "afterLocked"}
    /\ mu.mutex = Observer <=> mu.obs.pc # "idle"
    /\ cb.state = CircuitBreakerStateClosed
          => beforeRequest(cb, settings, now).err = ErrNil

\* caller 1 was admitted to a Closed breaker and its wrapped call is still
\* running; since then Counts() has returned the one request, and caller 2
\* has taken the mutex in beforeRequest
C31_Witness ==
    /\ cb.state = CircuitBreakerStateClosed
    /\ cb.stateChange.n = 0
    /\ settings.interval = 0
    /\ call[1].pc = "admitted"
    /\ cb.counts = [ZeroCounts EXCEPT !.Requests = 1]
    /\ mu.obs.pc = "idle"
    /\ mu.obs.counts = cb.counts
    /\ mu.obs.state = CircuitBreakerStateClosed
    /\ mu.mutex = 2
    /\ call[2].pc = "beforeLocked"

(***************************************************************************)
(* Retry middleware: response bodies.                                      *)
(***************************************************************************)

\* C35: once an attempt is to be followed by another one, its response body
\* has been drained and closed exactly if the call returned no error, and it
\* is so during the backoff wait and when the next attempt starts; the
\* response the middleware returns has not been drained, whether the policy
\* stopped the loop or the retries ran out.
C35_DrainedBeforeRetryOnly ==
    /\ (rt.pc \in {"wait", "attempt"} /\ rt.calls >= 1)
          => rt.drained = (rt.doErr = ErrNil)
    /\ (rt.pc = "done" /\ rt.retResp # NilResponse) => ~rt.drained

\* the retries ran out on a response the policy wanted retried: it is
\* returned with its body untouched
C35_Witness ==
    /\ rt.pc = "done"
    /\ config.RetryMax = 2
    /\ rt.calls = 3
    /\ rt.decisions = <<TRUE, TRUE, TRUE>>
    /\ rt.retResp.status = 500
    /\ ~rt.drained

(***************************************************************************)
(* Retry middleware: a body producer that returns an error.                *)
(***************************************************************************)

\* C34: when req.body() returns an error at the start of an attempt, the
\* middleware returns that error as it is and the run is over: next was
\* called, CheckRetry consulted and Backoff computed once for each earlier
\* attempt and not for this one.
C34_ProducerErrorEndsRun ==
    rt.attempt >= producer
       => /\ rt.pc = "done"
          /\ rt.attempt = producer
          /\ rt.retErr = [msg |-> ErrProducer, attempt |-> 0]
          /\ rt.calls = producer - 1
          /\ Len(rt.decisions) = producer - 1
          /\ rt.waits = producer - 1

\* the producer failed at the start of the third attempt, after two calls
\* that were retried
C34_Witness ==
    /\ rt.pc = "done"
    /\ producer = 3
    /\ rt.attempt = 3
    /\ rt.calls = 2
    /\ rt.retErr.msg = ErrProducer

(***************************************************************************)
(* Retrying client: termination of Client.Do.                              *)
(***************************************************************************)

\* C40: Client.Do returns for every request, with or without a body
\* producer, after at least one HTTP call, and after exactly one call when
\* CheckRetry answered "do not retry" for the first attempt.
C40_DoTerminates ==
    /\ <>(old.pc = "done")
    /\ [](old.pc = "done" => old.calls >= 1)
    /\ []((old.pc = "done" /\ old.decisions # <<>> /\ ~old.decisions[1])
             => old.calls = 1)

(***************************************************************************)
(* Stacked middleware: breaker, retry and OAuth together.                  *)
(***************************************************************************)

\* a request through breaker -> retry -> ... has come back to the caller
BreakerOutermostDone == stack.order = "breaker-retry" /\ stack.pc = "done"

\* C32 as stated: one request through breaker -> retry -> transport runs
\* beforeRequest once; rejected, it reaches neither the retry layer nor the
\* transport and counts nothing; admitted, it is counted as one request and
\* as one success or failure, whatever the number of attempts.
C32_CountedOnce ==
    BreakerOutermostDone
       => /\ stack.befores = 1
          /\ stack.rejects = 1
                => /\ stack.retries = 0
                   /\ stack.transports = 0
                   /\ stack.counted = 0
                   /\ stack.afters = 0
          /\ stack.rejects = 0
                => /\ stack.counted = 1
                   /\ stack.retries = 1
                   /\ stack.afters = 1
                   /\ stack.recorded = 1

\* C32 as amended: the same, except that the one outcome is recorded only
\* if the breaker's generation is still the one the request was admitted
\* under when the retry layer returns, and not at all otherwise.
C32_CountedOnceUnlessStale ==
    BreakerOutermostDone
       => /\ stack.befores = 1
          /\ stack.rejects = 1
                => /\ stack.retries = 0
                   /\ stack.transports = 0
                   /\ stack.counted = 0
                   /\ stack.afters = 0
          /\ stack.rejects = 0
                => /\ stack.counted = 1
                   /\ stack.retries = 1
                   /\ stack.afters = 1
                   /\ stack.recorded = (IF stack.discarded THEN 0 ELSE 1)

\* an admitted request that took three attempts and was recorded once
C32_Witness ==
    /\ BreakerOutermostDone
    /\ stack.rejects = 0
    /\ stack.transports = 3
    /\ stack.counted = 1
    /\ stack.recorded = 1
    /\ cb.counts.Requests = 1

\* C33: once the breaker has rejected a request with ErrOpenState or
\* ErrTooManyRequests, the retry middleware makes no further attempt for
\* it, whichever of the two is outermost: the breaker rejects a request at
\* most once.
C33_RejectionNotRetried ==
    stack.rejects >= 1 => (stack.afterReject = 0 /\ stack.befores = 1)

\* C39: a request that reaches the transport carries exactly one value of
\* the authorization header, the current bearer token, on the first attempt
\* and on every retry.
C39_OneAuthorizationValue ==
    stack.pc = "transport" => stack.header = <<stack.token>>

====
